---------------------------- MODULE Spec2Model ----------------------------
(***************************************************************************)
(* Model of the transcript ingestion pipeline of scripts/ingest_transcripts.py *)
(*                                                                         *)
(* The specifications of this module:                                     *)
(*   SpecChunk      the two chunkers, run iteration by iteration on every  *)
(*                  text over a small alphabet;                            *)
(*   SpecInterview  process_single_interview on one interview: field       *)
(*                  extraction, the cleaning fan-out/fan-in on a pool of   *)
(*                  four workers, create_transcript_records;               *)
(*   SpecDocument   one call of process_pdf on a short text: the length    *)
(*                  test, detect_interview_boundaries on every kind of     *)
(*                  response, split_interviews_from_text, the interviews   *)
(*                  handed to process_single_interview;                    *)
(*   Spec           main and the concurrent process_pdf tasks: the worker  *)
(*                  pool, the interview loop, pinecone_lock, the batched   *)
(*                  upserts and the record counter;                        *)
(*   FairSpec       a whole run of main from the search for PDF files,     *)
(*                  with fairness;                                         *)
(*   SpecClean      clean_text_chunk_with_openai on one chunk;             *)
(*   SpecCleanPool  the cleaning pool on an interview of five chunks;      *)
(*   SpecPdfPool    main over more documents than the pool has workers;    *)
(*   SpecLoad       the upsert loop on up to three batches;                *)
(*   SpecTask       one process_pdf task step by step, its interviews run  *)
(*                  by the steps of process_single_interview;              *)
(*   SpecRuns       the script run twice over the same documents.          *)
(* A text is a sequence of one-character strings; offsets are 0-based as   *)
(* in the source, so text[i] of the source is text[i + 1] here.            *)
(***************************************************************************)
EXTENDS Integers, Sequences, FiniteSets, TLC

(***************************************************************************)
(* Python string primitives                                                *)
(***************************************************************************)
NL == "\n"
\* Python's None, where a text may stand: no text has this element
None == <<"None">>

Min2(a, b) == IF a < b THEN a ELSE b
Max2(a, b) == IF a > b THEN a ELSE b

\* the characters str.strip() removes
Whitespace == {" ", NL, "\t", "\r"}

\* s[lo:hi] for 0 <= lo: the end is clipped to len(s), an empty range gives ""
Slice(s, lo, hi) == SubSeq(s, lo + 1, Min2(hi, Len(s)))

\* sub occurs in s at 0-based offset i
OccursAt(s, sub, i) == \A k \in 1..Len(sub) : s[i + k] = sub[k]

\* s.rfind(sub, start, end): the highest offset i with start <= i and
\* i + len(sub) <= min(end, len(s)) where sub occurs, or -1
rfind(s, sub, start, end) ==
  LET hi == Min2(end, Len(s)) - Len(sub)
  IN  IF \E i \in start..hi : OccursAt(s, sub, i)
      THEN CHOOSE i \in start..hi :
             OccursAt(s, sub, i) /\ \A j \in (i + 1)..hi : ~OccursAt(s, sub, j)
      ELSE -1

\* s.strip()
strip(s) ==
  LET n == Len(s)
  IN  IF \A i \in 1..n : s[i] \in Whitespace
      THEN <<>>
      ELSE LET first == CHOOSE i \in 1..n :
                          s[i] \notin Whitespace /\ \A j \in 1..(i - 1) : s[j] \in Whitespace
               last  == CHOOSE i \in 1..n :
                          s[i] \notin Whitespace /\ \A j \in (i + 1)..n : s[j] \in Whitespace
           IN  SubSeq(s, first, last)

\* sep.join(parts)
RECURSIVE join(_, _)
join(sep, parts) ==
  IF parts = <<>> THEN <<>>
  ELSE IF Len(parts) = 1 THEN parts[1]
  ELSE parts[1] \o sep \o join(sep, Tail(parts))

\* the text made of n copies of the character c
Rep(c, n) == [i \in 1..n |-> c]

(***************************************************************************)
(* The chunkers: chunk_text_for_processing and chunk_for_embedding         *)
(***************************************************************************)
PARA == <<NL, NL>>

\* mutant: the break tests are truth tests (`if para_break:`), which a
\* failed search (-1) passes
processing_end_truth_test(text, chunk_size, start) ==
  LET end == start + chunk_size
  IN  IF end < Len(text)
      THEN LET para_break == rfind(text, PARA, start, end)
           IN  IF para_break # 0
               THEN para_break + 2
               ELSE LET sentence_break ==
                          Max2(rfind(text, <<".", " ">>, start, end),
                               Max2(rfind(text, <<"?", " ">>, start, end),
                                    rfind(text, <<"!", " ">>, start, end)))
                    IN  IF sentence_break # 0 THEN sentence_break + 2 ELSE end
      ELSE end

\* One pass of the while loop of chunk_text_for_processing: the accepted end
\* of the window that begins at start.
processing_end(text, chunk_size, start) ==
  LET end == start + chunk_size
  IN  IF end < Len(text)
      THEN LET para_break == rfind(text, PARA, start, end)
           IN  IF para_break > start
               THEN para_break + 2
               ELSE LET sentence_break ==
                          Max2(rfind(text, <<".", " ">>, start, end),
                               Max2(rfind(text, <<"?", " ">>, start, end),
                                    rfind(text, <<"!", " ">>, start, end)))
                    IN  IF sentence_break > start THEN sentence_break + 2 ELSE end
      ELSE end

\* One pass of the while loop of chunk_for_embedding: as above, with a single
\* newline added to the sentence boundaries.
embedding_end(text, max_chars, start) ==
  LET end == start + max_chars
  IN  IF end < Len(text)
      THEN LET para_break == rfind(text, PARA, start, end)
           IN  IF para_break > start
               THEN para_break + 2
               ELSE LET sentence_break ==
                          Max2(Max2(rfind(text, <<".", " ">>, start, end),
                                    rfind(text, <<"?", " ">>, start, end)),
                               Max2(rfind(text, <<"!", " ">>, start, end),
                                    rfind(text, <<NL>>, start, end)))
                    IN  IF sentence_break > start THEN sentence_break + 2 ELSE end
      ELSE end

\* mutant: the slice stops one character early, text[start:end - 1]
append_chunk_short_slice(chunks, text, start, end) ==
  LET chunk == strip(Slice(text, start, end - 1))
  IN  IF chunk # <<>> THEN Append(chunks, chunk) ELSE chunks

\* chunk = text[start:end].strip(); if chunk: chunks.append(chunk)
append_chunk(chunks, text, start, end) ==
  LET chunk == strip(Slice(text, start, end))
  IN  IF chunk # <<>> THEN Append(chunks, chunk) ELSE chunks

\* mutant: the next window begins one character after the accepted end
next_start_after(end) == end + 1

\* start = end
next_start(end) == end

RECURSIVE processing_loop(_, _, _, _)
processing_loop(text, chunk_size, start, chunks) ==
  IF start < Len(text)
  THEN LET end == processing_end(text, chunk_size, start)
       IN  processing_loop(text, chunk_size, next_start(end),
                           append_chunk(chunks, text, start, end))
  ELSE chunks

chunk_text_for_processing(text, chunk_size) ==
  IF Len(text) <= chunk_size THEN <<text>> ELSE processing_loop(text, chunk_size, 0, <<>>)

RECURSIVE embedding_loop(_, _, _, _)
embedding_loop(text, max_chars, start, chunks) ==
  IF start < Len(text)
  THEN LET end == embedding_end(text, max_chars, start)
       IN  embedding_loop(text, max_chars, next_start(end),
                          append_chunk(chunks, text, start, end))
  ELSE chunks

chunk_for_embedding(text, max_chars) ==
  IF Len(text) <= max_chars THEN <<text>> ELSE embedding_loop(text, max_chars, 0, <<>>)

(***************************************************************************)
(* State                                                                   *)
(***************************************************************************)
VARIABLES
  \* a chunker call in progress (SpecChunk)
  chunker,       \* the function called: "chunk_text_for_processing" or "chunk_for_embedding"
  text,          \* its argument text
  target_size,   \* its argument chunk_size / max_chars
  start,         \* the local start
  chunks,        \* the local chunks
  chunk_pc,      \* "idle", "call", "loop", "returned"
  \* one call of process_single_interview (SpecInterview)
  interview_text,      \* its argument
  company,             \* the extracted fields
  interviewee,
  text_chunks,         \* the cleaning chunks
  future_to_chunk,     \* the submitted cleaning futures, in submission order
  yielded,             \* the chunk indices as_completed has handed to the loop
  results,             \* the pre-sized results array
  cleaned_transcript,  \* the joined results
  transcript_chunks,   \* the embedding chunks of create_transcript_records
  embed_i,             \* the index i of its loop
  records,             \* its records
  interview_pc,        \* "idle", "extract", "chunk", "submit", "collect",
                       \* "records", "embed", "returned"
  out_of_order,        \* history: as_completed yielded a chunk before a lower one
  embed_failed,        \* history: the indices i whose embedding call raised
  embedding_calls,     \* the embeddings.create calls issued and not yet returned
  \* main and its process_pdf tasks (Spec); documents are 1..pdf_count, in
  \* the sorted order of pdf_paths
  pdf_count,           \* len(pdf_paths)
  submitted,           \* how many documents main has submitted to the pool
  task_pc,             \* per document: "new", "queued", "extract", "split", "interviews",
                       \* "lock", "upsert", "unlock", "returned", "raised"
  interview_count,     \* per document: len(interview_texts)
  interview_i,         \* per document: interviews gone through by the loop
  all_records,         \* per document: the local all_records
  upsert_i,            \* per document: the index i of the upsert loop
  future_count,        \* per document: the count its future holds once returned
  pinecone_lock,       \* the document holding pinecone_lock, 0 when free
  store,               \* the upsert calls the index received, in order: the batch
                       \* (vectors) and the namespace of each
  total_records,       \* main's counter
  consumed,            \* the documents whose future as_completed has yielded
  main_pc,             \* "submit", "collect", "done"
  interview_log,       \* history, per document: for each interview gone through,
                       \* what process_single_interview did (an InterviewOutcomes)
  raw_texts,           \* history, per document: the raw_text extract_text_from_pdf
                       \* returned, None before it has
  task_runs            \* history, per document: how many times a worker of the
                       \* pool has started process_pdf for it

chunk_vars == <<chunker, text, target_size, start, chunks, chunk_pc>>
interview_vars == <<interview_text, company, interviewee, text_chunks, future_to_chunk,
                    yielded, results, cleaned_transcript, transcript_chunks, embed_i,
                    records, interview_pc, out_of_order, embed_failed, embedding_calls>>
main_vars == <<pdf_count, submitted, task_pc, interview_count, interview_i, all_records,
               upsert_i, future_count, pinecone_lock, store, total_records, consumed,
               main_pc, interview_log, raw_texts, task_runs>>

\* one call of process_pdf up to its return, on a text of a few hundred
\* characters (SpecDocument)
VARIABLES
  pdf_raw_text,        \* raw_text of process_pdf: what extract_text_from_pdf returned
  detection,           \* history: the response of the boundary-detection call
  pdf_boundaries,      \* what detect_interview_boundaries returned
  interview_texts,     \* what split_interviews_from_text returned
  handed,              \* history: the interview texts handed to process_single_interview
  extractions,         \* history: per interview handed, the response of the
                       \* field-extraction call and the pair returned for it
  doc_records,         \* all_records of process_pdf
  upserted,            \* the records the upsert loop has written
  doc_result,          \* the count process_pdf returned
  doc_pc               \* "read", "check", "detect", "split", "interviews", "interview"
                       \* (inside process_single_interview), "returned", "raised"

doc_vars == <<pdf_raw_text, detection, pdf_boundaries, interview_texts, handed, extractions,
              doc_records, upserted, doc_result, doc_pc>>

\* one call of clean_text_chunk_with_openai (SpecClean)
VARIABLES
  clean_chunk,         \* its argument chunk
  clean_calls,         \* the calls of chat.completions.create it has issued
  clean_result,        \* what it returned, None before it has
  clean_pc             \* "idle", "test", "call", "returned"

clean_vars == <<clean_chunk, clean_calls, clean_result, clean_pc>>

\* two runs of the script over the same documents (SpecRuns)
VARIABLES
  run,                 \* the run in progress: 1 or 2, 0 when none
  run_chunks,          \* the embedding chunks the documents give, the same in both runs
  built,               \* the records the run has built
  issued,              \* the values uuid.uuid4() has returned so far
  index,               \* the namespace of the vector store: the record under each id
  run_ids,             \* history, per run: the ids of the records it has built
  run_pc               \* "idle", "build", "upsert", "done"

run_vars == <<run, run_chunks, built, issued, index, run_ids, run_pc>>

aux_vars == <<clean_vars, run_vars>>
vars == <<chunk_vars, interview_vars, main_vars, doc_vars, aux_vars>>

(***************************************************************************)
(* Bounds of the chunker runs                                              *)
(***************************************************************************)
MaxLen == 5       \* longest text tried
MaxSize == 3      \* largest target size tried
Alphabet == {"a", " ", NL, ".", "?", "!"}

Texts == UNION {[1..n -> Alphabet] : n \in 0..MaxLen}

\* the texts of the termination check ('?' and '!' are handled as '.' is)
MaxLiveLen == 4
LiveAlphabet == {"a", " ", NL, "."}
TextsLive == UNION {[1..n -> LiveAlphabet] : n \in 0..MaxLiveLen}

ChunkIdle ==
  /\ chunker = "idle" /\ text = <<>> /\ target_size = 0
  /\ start = 0 /\ chunks = <<>> /\ chunk_pc = "idle"

InterviewIdle ==
  /\ interview_text = <<>> /\ company = None /\ interviewee = None
  /\ text_chunks = <<>> /\ future_to_chunk = <<>> /\ yielded = {}
  /\ results = <<>> /\ cleaned_transcript = <<>> /\ transcript_chunks = <<>>
  /\ embed_i = 0 /\ records = <<>> /\ interview_pc = "idle"
  /\ out_of_order = FALSE /\ embed_failed = {} /\ embedding_calls = 0

MainIdle ==
  /\ pdf_count = 0 /\ submitted = 0 /\ task_pc = <<>> /\ interview_count = <<>>
  /\ interview_i = <<>> /\ all_records = <<>> /\ upsert_i = <<>> /\ future_count = <<>>
  /\ pinecone_lock = 0 /\ store = <<>> /\ total_records = 0 /\ consumed = {}
  /\ main_pc = "idle" /\ interview_log = <<>> /\ raw_texts = <<>> /\ task_runs = <<>>

DocumentIdle ==
  /\ pdf_raw_text = <<>> /\ detection = None /\ pdf_boundaries = <<>>
  /\ interview_texts = <<>>
  /\ handed = <<>> /\ extractions = <<>> /\ doc_records = <<>> /\ upserted = <<>>
  /\ doc_result = 0 /\ doc_pc = "idle"

CleanIdle ==
  /\ clean_chunk = <<>> /\ clean_calls = 0 /\ clean_result = None /\ clean_pc = "idle"

RunIdle ==
  /\ run = 0 /\ run_chunks = 0 /\ built = <<>> /\ issued = {} /\ index = <<>>
  /\ run_ids = <<>> /\ run_pc = "idle"

AuxIdle == CleanIdle /\ RunIdle

(***************************************************************************)
(* SpecChunk: the chunkers step by step                                    *)
(***************************************************************************)
InitChunk ==
  /\ chunker \in {"chunk_text_for_processing", "chunk_for_embedding"}
  /\ text \in Texts
  /\ target_size \in 1..MaxSize
  /\ start = 0
  /\ chunks = <<>>
  /\ chunk_pc = "call"
  /\ InterviewIdle
  /\ MainIdle
  /\ DocumentIdle
  /\ AuxIdle

\* if len(text) <= chunk_size: return [text]; otherwise chunks = [], start = 0
chunk_call ==
  /\ chunk_pc = "call"
  /\ IF Len(text) <= target_size
     THEN chunks' = <<text>> /\ chunk_pc' = "returned"
     ELSE chunks' = <<>> /\ chunk_pc' = "loop"
  /\ start' = 0
  /\ UNCHANGED <<chunker, text, target_size, interview_vars, main_vars, doc_vars, aux_vars>>

\* the accepted end of the window at start, for the function called
accepted_end ==
  IF chunker = "chunk_text_for_processing"
  THEN processing_end(text, target_size, start)
  ELSE embedding_end(text, target_size, start)

\* one pass of `while start < len(text)`
chunk_iter ==
  /\ chunk_pc = "loop"
  /\ start < Len(text)
  /\ chunks' = append_chunk(chunks, text, start, accepted_end)
  /\ start' = next_start(accepted_end)
  /\ UNCHANGED <<chunker, text, target_size, chunk_pc, interview_vars, main_vars, doc_vars,
                 aux_vars>>

\* the loop condition fails: return chunks
chunk_return ==
  /\ chunk_pc = "loop"
  /\ ~(start < Len(text))
  /\ chunk_pc' = "returned"
  /\ UNCHANGED <<chunker, text, target_size, start, chunks, interview_vars, main_vars,
                 doc_vars, aux_vars>>

NextChunk == chunk_call \/ chunk_iter \/ chunk_return

SpecChunk == InitChunk /\ [][NextChunk]_vars

\* The same machine on the texts of TextsLive, with the loop scheduled until
\* it ends (a running call is never suspended for ever).
InitChunkLive ==
  /\ chunker \in {"chunk_text_for_processing", "chunk_for_embedding"}
  /\ text \in TextsLive
  /\ target_size \in 1..MaxSize
  /\ start = 0
  /\ chunks = <<>>
  /\ chunk_pc = "call"
  /\ InterviewIdle
  /\ MainIdle
  /\ DocumentIdle
  /\ AuxIdle

FairSpecChunk == InitChunkLive /\ [][NextChunk]_vars /\ WF_vars(NextChunk)

(***************************************************************************)
(* Claims about the chunkers (SpecChunk, FairSpecChunk)                    *)
(***************************************************************************)
\* s.lstrip()
lstrip(s) ==
  IF \A i \in 1..Len(s) : s[i] \in Whitespace
  THEN <<>>
  ELSE SubSeq(s, CHOOSE i \in 1..Len(s) :
                   s[i] \notin Whitespace /\ \A j \in 1..(i - 1) : s[j] \in Whitespace,
              Len(s))

IsPrefix(p, s) == Len(p) <= Len(s) /\ SubSeq(s, 1, Len(p)) = p

\* t is w0 c1 w1 ... cn wn for the chunks c1..cn of cs, in order, where every
\* w is a possibly empty run of whitespace
RECURSIVE WhitespaceFilled(_, _)
WhitespaceFilled(t, cs) ==
  IF cs = <<>>
  THEN strip(t) = <<>>
  ELSE /\ IsPrefix(cs[1], lstrip(t))
       /\ WhitespaceFilled(SubSeq(lstrip(t), Len(cs[1]) + 1, Len(lstrip(t))), Tail(cs))

Trimmed(c) == c # <<>> /\ strip(c) = c

\* C8 as stated: concatenating the returned chunks, in order, reproduces the
\* text exactly.
C8_ConcatReproducesText ==
  chunk_pc = "returned" => join(<<>>, chunks) = text

\* C8 amended: a text no longer than the target size is returned as the one
\* chunk; a longer text is returned as trimmed chunks which, taken in order
\* with only whitespace re-inserted before, between and after them, reproduce
\* the text exactly (nothing but the whitespace at the cuts is missing, and
\* nothing appears twice).
C8_ChunksReproduceTextUpToCutWhitespace ==
  chunk_pc = "returned" =>
    IF Len(text) <= target_size
    THEN chunks = <<text>>
    ELSE /\ \A i \in 1..Len(chunks) : Trimmed(chunks[i])
         /\ WhitespaceFilled(text, chunks)

\* a call that returned several chunks and dropped whitespace at a cut
C8_Witness ==
  /\ chunk_pc = "returned"
  /\ Len(chunks) >= 2
  /\ join(<<>>, chunks) # text
  /\ WhitespaceFilled(text, chunks)

\* C9 as stated: every returned chunk is non-empty after trimming, for every
\* text, the empty and the whitespace-only ones included.
C9_EveryChunkNonEmptyAfterTrim ==
  chunk_pc = "returned" => \A i \in 1..Len(chunks) : strip(chunks[i]) # <<>>

\* C10: the start offset strictly increases at every pass of the loop (the
\* accepted end is greater than the current start), and the loop terminates.
C10_StartIncreasesAndLoopTerminates ==
  /\ [][chunk_iter => start' > start]_vars
  /\ <>(chunk_pc = "returned")

\* a call whose loop ran at least three passes and returned
C10_Witness ==
  /\ chunk_pc = "returned"
  /\ Len(text) > target_size
  /\ Len(chunks) >= 3
  /\ start >= Len(text)

\* the offsets p after start at which sub lies inside the window [start, end)
breaks_in_window(sub, end) ==
  {p \in (start + 1)..(end - Len(sub)) : OccursAt(text, sub, p)}

\* the highest offset of a non-empty set of offsets
last_of(offsets) == CHOOSE p \in offsets : \A q \in offsets : q <= p

\* the end C11 states for the window at start: after the last paragraph
\* break, else after the last sentence-ending punctuation, else start + S
stated_end ==
  LET end == start + target_size
      paragraph_breaks == breaks_in_window(PARA, end)
      sentence_breaks == breaks_in_window(<<".", " ">>, end)
                           \cup breaks_in_window(<<"?", " ">>, end)
                           \cup breaks_in_window(<<"!", " ">>, end)
  IN  IF paragraph_breaks # {} THEN last_of(paragraph_breaks) + 2
      ELSE IF sentence_breaks # {} THEN last_of(sentence_breaks) + 2
      ELSE end

\* C11 as stated: a window that ends before the end of the text is cut after
\* the last paragraph break lying after start in it, else after the last
\* sentence-ending punctuation ('. ', '? ', '! ') lying after start in it,
\* else exactly at start + S; this for both chunkers.
C11_CutAtParagraphThenSentenceThenLength ==
  [][(chunk_iter /\ start + target_size < Len(text)) => start' = stated_end]_vars

\* C12 as stated: on every text and size the two chunkers return the same
\* sequence of chunks.
C12_ChunkersReturnTheSameChunks ==
  chunk_pc = "returned" =>
    /\ chunks = chunk_text_for_processing(text, target_size)
    /\ chunks = chunk_for_embedding(text, target_size)

\* C33 as stated: the accepted end of a window never lies beyond start + S,
\* and every chunk either chunker has collected has at most S characters.
C33_ChunkNeverLongerThanSize ==
  /\ chunk_pc = "loop" /\ start < Len(text) => accepted_end <= start + target_size
  /\ \A i \in 1..Len(chunks) : Len(chunks[i]) <= target_size

\* the characters of s that are not whitespace, in order
non_whitespace(s) == SelectSeq(s, LAMBDA c : c \notin Whitespace)

\* C34: splitting loses whitespace only. While the loop runs, the
\* non-whitespace characters of the chunks collected so far are those of the
\* text before start, in order; when the call has returned, the non-whitespace
\* characters of the concatenated chunks are those of the text, in order.
C34_OnlyWhitespaceIsLost ==
  /\ chunk_pc = "loop" =>
       non_whitespace(join(<<>>, chunks)) = non_whitespace(Slice(text, 0, start))
  /\ chunk_pc = "returned" =>
       non_whitespace(join(<<>>, chunks)) = non_whitespace(text)

\* a call that returned two chunks or more, dropped a whitespace-only window
\* and trimmed a chunk
C34_Witness ==
  /\ chunk_pc = "returned"
  /\ Len(chunks) >= 2
  /\ Len(join(<<>>, chunks)) + 2 <= Len(text)
  /\ non_whitespace(text) = join(<<>>, chunks)
  /\ target_size = 1
  /\ text[2] \in Whitespace /\ text[3] \notin Whitespace

(***************************************************************************)
(* process_single_interview and its callees                                *)
(***************************************************************************)
MIN_INTERVIEW_LEN == 100   \* len(interview_text) > 100
CLEAN_CHUNK_SIZE == 5000   \* chunk_text_for_processing(interview_text, chunk_size=5000)
MIN_CLEAN_LEN == 10        \* len(chunk.strip()) < 10
CLEAN_WORKERS == 4         \* ThreadPoolExecutor(max_workers=4)
EMBED_MAX_CHARS == 6000    \* chunk_for_embedding(transcript_text, max_chars=6000)

\* split_interviews_from_text, given the boundaries detect_interview_boundaries
\* returned (spans with 0 <= start)
RECURSIVE valid_interviews(_, _)
valid_interviews(raw_text, boundaries) ==
  IF boundaries = <<>> THEN <<>>
  ELSE LET interview == strip(Slice(raw_text, boundaries[1][1], boundaries[1][2]))
       IN  (IF Len(interview) > MIN_INTERVIEW_LEN THEN <<interview>> ELSE <<>>)
           \o valid_interviews(raw_text, Tail(boundaries))

\* mutant: `return interviews`, with no fallback
split_interviews_without_fallback(raw_text, boundaries) ==
  valid_interviews(raw_text, boundaries)

\* for start, end in boundaries: ...; return interviews if interviews else
\* [raw_text]
split_interviews_from_text(raw_text, boundaries) ==
  IF valid_interviews(raw_text, boundaries) # <<>>
  THEN valid_interviews(raw_text, boundaries)
  ELSE <<raw_text>>

\* What the field-extraction call can do: "raised" (the call raises),
\* "not_json" (the content is no JSON text: json.loads raises), "not_object"
\* (the content is JSON but no object: result.get raises), or "object", a
\* JSON object in which each key is missing, null, empty or a name.
Missing == <<"Missing">>
extraction_failure(kind) ==
  [kind |-> kind, company |-> Missing, interviewee |-> Missing]

\* the responses tried at full scale (SpecInterview)
ExtractionResponses ==
  { extraction_failure("raised"),
    [kind |-> "object", company |-> Missing, interviewee |-> Missing],
    [kind |-> "object", company |-> None,    interviewee |-> <<>>],
    [kind |-> "object", company |-> <<"A", "c", "m", "e">>,
                        interviewee |-> <<"J", "a", "n", "e", " ", "D", "o", "e">>] }

\* the responses tried on small documents (SpecDocument)
AllExtractionResponses ==
  ExtractionResponses
    \cup { extraction_failure("not_json"),
           extraction_failure("not_object"),
           [kind |-> "object", company |-> <<>>, interviewee |-> None] }

Unknown == <<"U", "n", "k", "n", "o", "w", "n">>

\* result.get(key, "Unknown")
dict_get(value) == IF value = Missing THEN Unknown ELSE value

\* mutant: the except branch returns nothing for the two fields
extract_company_and_interviewee_returning_none(response) ==
  IF response.kind = "object"
  THEN <<dict_get(response.company), dict_get(response.interviewee)>>
  ELSE <<None, None>>

\* extract_company_and_interviewee_with_openai: the pair returned; every
\* exception of the try block ends in the except branch
extract_company_and_interviewee_with_openai(response) ==
  IF response.kind = "object"
  THEN <<dict_get(response.company), dict_get(response.interviewee)>>
  ELSE <<Unknown, Unknown>>

\* mutant: only None is replaced (`x if x is not None else "Unknown"`)
or_unknown_unless_none(x) == IF x = None THEN Unknown ELSE x

\* x or "Unknown"
or_unknown(x) == IF x = None \/ x = <<>> THEN Unknown ELSE x

\* What a cleaning call can do: "skipped" (the chunk is too short, no call is
\* made), "echo" (the service returns the chunk's text), "rewrite" (it returns
\* another text, with whitespace around it), "error" (the call raises, or its
\* response has no content to strip: both end in the except branch).
rewritten(chunk) == <<" ", "#">> \o chunk \o <<NL>>

\* mutant: the length tested is that of the chunk as given
CleaningResponses_untrimmed(chunk) ==
  IF chunk = <<>> \/ Len(chunk) < MIN_CLEAN_LEN
  THEN {"skipped"}
  ELSE {"echo", "rewrite", "error"}

CleaningResponses(chunk) ==
  IF chunk = <<>> \/ Len(strip(chunk)) < MIN_CLEAN_LEN
  THEN {"skipped"}
  ELSE {"echo", "rewrite", "error"}

\* mutant: the except branch returns an empty text
clean_text_chunk_dropping_failed(chunk, response) ==
  CASE response = "skipped" -> chunk
    [] response = "echo"    -> strip(chunk)
    [] response = "rewrite" -> strip(rewritten(chunk))
    [] response = "error"   -> <<>>

\* clean_text_chunk_with_openai: the text returned
clean_text_chunk_with_openai(chunk, response) ==
  CASE response = "skipped" -> chunk
    [] response = "echo"    -> strip(chunk)
    [] response = "rewrite" -> strip(rewritten(chunk))
    [] response = "error"   -> chunk

\* the record create_transcript_records appends for chunk i (source_url,
\* source_description and chunk_type are fixed by these fields; values is
\* the embedding the service returned)
transcript_record(co, iv, chunk_text, i, total, uuid, source_filename) ==
  [ id |-> uuid,
    company |-> or_unknown(co),
    interviewee |-> or_unknown(iv),
    transcript |-> chunk_text,
    chunk_index |-> i,
    total_chunks |-> total,
    source_name |-> source_filename ]

(***************************************************************************)
(* SpecClean: one call of clean_text_chunk_with_openai                     *)
(***************************************************************************)
MaxChunkLen == 11      \* longest chunk tried

\* the chunks tried: every text of letters and spaces up to MaxChunkLen
CleanChunks == UNION {[1..n -> {"a", " "}] : n \in 0..MaxChunkLen}

InitClean ==
  /\ clean_chunk \in CleanChunks
  /\ clean_calls = 0
  /\ clean_result = None
  /\ clean_pc = "test"
  /\ ChunkIdle
  /\ InterviewIdle
  /\ MainIdle
  /\ DocumentIdle
  /\ RunIdle

\* if not chunk or len(chunk.strip()) < 10: return chunk; otherwise the
\* request is sent: openai_client.chat.completions.create(...)
clean_test ==
  /\ clean_pc = "test"
  /\ IF CleaningResponses(clean_chunk) = {"skipped"}
     THEN /\ clean_result' = clean_text_chunk_with_openai(clean_chunk, "skipped")
          /\ clean_calls' = clean_calls
          /\ clean_pc' = "returned"
     ELSE /\ clean_result' = clean_result
          /\ clean_calls' = clean_calls + 1
          /\ clean_pc' = "call"
  /\ UNCHANGED <<clean_chunk, chunk_vars, interview_vars, main_vars, doc_vars, run_vars>>

\* the call returns a response or raises: the stripped content is returned,
\* or the except branch returns the chunk
clean_respond ==
  /\ clean_pc = "call"
  /\ \E response \in CleaningResponses(clean_chunk) :
       clean_result' = clean_text_chunk_with_openai(clean_chunk, response)
  /\ clean_pc' = "returned"
  /\ UNCHANGED <<clean_chunk, clean_calls, chunk_vars, interview_vars, main_vars, doc_vars,
                 run_vars>>

NextClean == clean_test \/ clean_respond

SpecClean == InitClean /\ [][NextClean]_vars

\* C21 as stated: a chunk shorter than 10 characters is returned unchanged
\* without a call, and for a chunk of 10 characters or more exactly one call
\* is issued.
C21_LengthDecidesCall ==
  clean_pc = "returned" =>
    IF Len(clean_chunk) < MIN_CLEAN_LEN
    THEN clean_calls = 0 /\ clean_result = clean_chunk
    ELSE clean_calls = 1

\* C21 amended: the length that counts is the trimmed one. A chunk whose
\* trimmed length is below 10 (every chunk shorter than 10 characters is
\* one) is returned unchanged without a call; for a chunk whose trimmed length
\* is 10 or more exactly one call is issued, whatever its outcome.
C21_TrimmedLengthDecidesCall ==
  /\ clean_pc = "call" => clean_calls = 1 /\ Len(strip(clean_chunk)) >= MIN_CLEAN_LEN
  /\ clean_pc = "returned" =>
       IF Len(strip(clean_chunk)) < MIN_CLEAN_LEN
       THEN clean_calls = 0 /\ clean_result = clean_chunk
       ELSE clean_calls = 1

\* a chunk of 11 characters of which 9 remain after trimming: returned as it
\* is, with its whitespace, and no call was issued
C21_Witness ==
  /\ clean_pc = "returned"
  /\ Len(clean_chunk) = MIN_CLEAN_LEN + 1
  /\ Len(strip(clean_chunk)) = MIN_CLEAN_LEN - 1
  /\ clean_calls = 0
  /\ clean_result = clean_chunk

(***************************************************************************)
(* SpecInterview: one call of process_single_interview                     *)
(***************************************************************************)
\* The interviews tried: what split_interviews_from_text hands over for a raw
\* text detected as a single interview, (0, len(raw_text)).
RawTexts ==
  { Rep("a", 150),
    Rep("a", 5000) \o Rep("b", 5),
    Rep("a", 5000) \o Rep("b", 5000) \o Rep("c", 2000) }

InitInterview ==
  /\ \E raw_text \in RawTexts :
       interview_text = split_interviews_from_text(raw_text, <<<<0, Len(raw_text)>>>>)[1]
  /\ company = None /\ interviewee = None
  /\ text_chunks = <<>> /\ future_to_chunk = <<>> /\ yielded = {}
  /\ results = <<>> /\ cleaned_transcript = <<>> /\ transcript_chunks = <<>>
  /\ embed_i = 0 /\ records = <<>>
  /\ interview_pc = "extract"
  /\ out_of_order = FALSE /\ embed_failed = {} /\ embedding_calls = 0
  /\ ChunkIdle
  /\ MainIdle
  /\ DocumentIdle
  /\ AuxIdle

\* company, interviewee = extract_company_and_interviewee_with_openai(first_chunk)
extract_fields ==
  /\ interview_pc = "extract"
  /\ \E response \in ExtractionResponses :
       /\ company' = extract_company_and_interviewee_with_openai(response)[1]
       /\ interviewee' = extract_company_and_interviewee_with_openai(response)[2]
  /\ interview_pc' = "chunk"
  /\ UNCHANGED <<embedding_calls, interview_text, text_chunks, future_to_chunk, yielded, results,
                 cleaned_transcript, transcript_chunks, embed_i, records, chunk_vars,
                 main_vars, doc_vars, aux_vars, out_of_order, embed_failed>>

\* text_chunks = chunk_text_for_processing(interview_text, chunk_size=5000)
chunk_interview ==
  /\ interview_pc = "chunk"
  /\ text_chunks' = chunk_text_for_processing(interview_text, CLEAN_CHUNK_SIZE)
  /\ interview_pc' = "submit"
  /\ UNCHANGED <<embedding_calls, interview_text, company, interviewee, future_to_chunk,
                 yielded, results,
                 cleaned_transcript, transcript_chunks, embed_i, records, chunk_vars,
                 main_vars, doc_vars, aux_vars, out_of_order, embed_failed>>

\* executor.submit(clean_text_chunk_with_openai, chunk) for the next chunk
submit_clean ==
  /\ interview_pc = "submit"
  /\ Len(future_to_chunk) < Len(text_chunks)
  /\ future_to_chunk' = Append(future_to_chunk, [state |-> "queued", response |-> "none"])
  /\ UNCHANGED <<embedding_calls, interview_text, company, interviewee, text_chunks, yielded,
                 results,
                 cleaned_transcript, transcript_chunks, embed_i, records, interview_pc,
                 chunk_vars, main_vars, doc_vars, aux_vars, out_of_order, embed_failed>>

\* results = [None] * len(text_chunks), once every chunk is submitted
presize_results ==
  /\ interview_pc = "submit"
  /\ Len(future_to_chunk) = Len(text_chunks)
  /\ results' = [k \in 1..Len(text_chunks) |-> None]
  /\ interview_pc' = "collect"
  /\ UNCHANGED <<embedding_calls, interview_text, company, interviewee, text_chunks,
                 future_to_chunk,
                 yielded, cleaned_transcript, transcript_chunks, embed_i, records,
                 chunk_vars, main_vars, doc_vars, aux_vars, out_of_order, embed_failed>>

running == {k \in 1..Len(future_to_chunk) : future_to_chunk[k].state = "running"}

\* mutant: the pool starts a thread for every call submitted
worker_is_free_unbounded == TRUE

\* ThreadPoolExecutor(max_workers=4): a worker is idle, or fewer than 4
\* worker threads exist
worker_is_free == Cardinality(running) < CLEAN_WORKERS

\* a free worker of the pool takes the oldest queued call
clean_start(k) ==
  /\ future_to_chunk[k].state = "queued"
  /\ \A j \in 1..(k - 1) : future_to_chunk[j].state # "queued"
  /\ worker_is_free
  /\ future_to_chunk' = [future_to_chunk EXCEPT ![k].state = "running"]
  /\ UNCHANGED <<embedding_calls, interview_text, company, interviewee, text_chunks, yielded,
                 results,
                 cleaned_transcript, transcript_chunks, embed_i, records, interview_pc,
                 chunk_vars, main_vars, doc_vars, aux_vars, out_of_order, embed_failed>>

\* clean_text_chunk_with_openai returns in its worker
clean_return(k) ==
  /\ future_to_chunk[k].state = "running"
  /\ \E response \in CleaningResponses(text_chunks[k]) :
       future_to_chunk' = [future_to_chunk EXCEPT ![k] = [state |-> "done", response |-> response]]
  /\ UNCHANGED <<embedding_calls, interview_text, company, interviewee, text_chunks, yielded,
                 results,
                 cleaned_transcript, transcript_chunks, embed_i, records, interview_pc,
                 chunk_vars, main_vars, doc_vars, aux_vars, out_of_order, embed_failed>>

\* mutant: every future is mapped to the index of the last chunk
chunk_idx_of_last(k) == Len(text_chunks)

\* chunk_idx = future_to_chunk[future]: the index its chunk was submitted with
chunk_idx(k) == k

\* mutant: the loop appends results in completion order
store_result_in_completion_order(res, k, cleaned) ==
  [res EXCEPT ![Cardinality(yielded) + 1] = cleaned]

\* results[chunk_idx] = cleaned
store_result(res, k, cleaned) == [res EXCEPT ![k] = cleaned]

\* one pass of `for future in as_completed(future_to_chunk)`; future.result()
\* cannot raise, clean_text_chunk_with_openai catching every exception itself
collect_result(k) ==
  /\ interview_pc = "collect"
  /\ future_to_chunk[k].state = "done"
  /\ k \notin yielded
  /\ yielded' = yielded \cup {k}
  /\ out_of_order' = (out_of_order \/ \E j \in 1..(k - 1) : j \notin yielded)
  /\ results' = store_result(results, chunk_idx(k),
                  clean_text_chunk_with_openai(text_chunks[k], future_to_chunk[k].response))
  /\ UNCHANGED <<embedding_calls, interview_text, company, interviewee, text_chunks,
                 future_to_chunk,
                 cleaned_transcript, transcript_chunks, embed_i, records, interview_pc,
                 chunk_vars, main_vars, doc_vars, aux_vars, embed_failed>>

\* mutant: the results are joined with no separator
join_results_bare(res) == join(<<>>, res)

\* "\n\n".join(cleaned_chunks)
join_results(res) == join(PARA, res)

\* mutant: the loop is left once a first future has completed
as_completed_first_only == yielded # {}

\* `for future in as_completed(future_to_chunk)` has yielded every future
as_completed_exhausted == yielded = 1..Len(text_chunks)

\* as_completed is exhausted and the pool shut down:
\* cleaned_transcript = "\n\n".join(cleaned_chunks)
join_cleaned ==
  /\ interview_pc = "collect"
  /\ as_completed_exhausted
  /\ cleaned_transcript' = join_results(results)
  /\ interview_pc' = "records"
  /\ UNCHANGED <<embedding_calls, interview_text, company, interviewee, text_chunks,
                 future_to_chunk,
                 yielded, results, transcript_chunks, embed_i, records, chunk_vars,
                 main_vars, doc_vars, aux_vars, out_of_order, embed_failed>>

\* create_transcript_records: transcript_chunks = chunk_for_embedding(...)
create_transcript_records ==
  /\ interview_pc = "records"
  /\ transcript_chunks' = chunk_for_embedding(cleaned_transcript, EMBED_MAX_CHARS)
  /\ records' = <<>>
  /\ embed_i' = 0
  /\ interview_pc' = "embed"
  /\ UNCHANGED <<embedding_calls, interview_text, company, interviewee, text_chunks,
                 future_to_chunk,
                 yielded, results, cleaned_transcript, chunk_vars, main_vars, doc_vars, aux_vars,
                 out_of_order, embed_failed>>

\* mutant: total_chunks counts the records built so far
record_for_chunk_counting_survivors(i) ==
  transcript_record(company, interviewee, transcript_chunks[i + 1], i,
                    Len(records) + 1, <<"interview", i>>, "transcript.pdf")

\* the record of chunk i
record_for_chunk(i) ==
  transcript_record(company, interviewee, transcript_chunks[i + 1], i,
                    Len(transcript_chunks), <<"interview", i>>, "transcript.pdf")

\* mutant: the call is issued without the previous one having returned
embedding_call_returned_unchecked == TRUE

\* embeddings.create is a blocking call of the loop's own thread
embedding_call_returned == embedding_calls = 0

\* a pass of the loop of create_transcript_records begins: the embedding call
\* of chunk i is issued
embed_call ==
  /\ interview_pc = "embed"
  /\ embed_i < Len(transcript_chunks)
  /\ embedding_call_returned
  /\ embedding_calls' = embedding_calls + 1
  /\ UNCHANGED <<interview_text, company, interviewee, text_chunks, future_to_chunk,
                 yielded, results, cleaned_transcript, transcript_chunks, embed_i, records,
                 interview_pc, chunk_vars, main_vars, doc_vars, aux_vars, out_of_order,
                 embed_failed>>

\* the pass ends: the embedding call returns and the record is appended, or
\* it raises and the chunk is skipped
embed_chunk ==
  /\ interview_pc = "embed"
  /\ embed_i < Len(transcript_chunks)
  /\ embedding_calls > 0
  /\ embedding_calls' = embedding_calls - 1
  /\ \/ records' = Append(records, record_for_chunk(embed_i)) /\ embed_failed' = embed_failed
     \/ records' = records /\ embed_failed' = embed_failed \cup {embed_i}
  /\ embed_i' = embed_i + 1
  /\ UNCHANGED <<interview_text, company, interviewee, text_chunks, future_to_chunk,
                 yielded, results, cleaned_transcript, transcript_chunks, interview_pc,
                 chunk_vars, main_vars, doc_vars, aux_vars, out_of_order>>

\* return records
return_records ==
  /\ interview_pc = "embed"
  /\ embed_i = Len(transcript_chunks)
  /\ interview_pc' = "returned"
  /\ UNCHANGED <<embedding_calls, interview_text, company, interviewee, text_chunks,
                 future_to_chunk,
                 yielded, results, cleaned_transcript, transcript_chunks, embed_i, records,
                 chunk_vars, main_vars, doc_vars, aux_vars, out_of_order, embed_failed>>

NextInterview ==
  \/ extract_fields
  \/ chunk_interview
  \/ submit_clean
  \/ presize_results
  \/ \E k \in 1..Len(future_to_chunk) : clean_start(k)
  \/ \E k \in 1..Len(future_to_chunk) : clean_return(k)
  \/ \E k \in 1..Len(future_to_chunk) : collect_result(k)
  \/ join_cleaned
  \/ create_transcript_records
  \/ embed_call
  \/ embed_chunk
  \/ return_records

SpecInterview == InitInterview /\ [][NextInterview]_vars

\* The cleaning stage and what follows it on an interview of more chunks than
\* the pool has workers: five windows of 5000 characters, each holding ten
\* letters, whitespace and, but for the last, a paragraph break at its end.
\* The run is taken up where the field extraction has failed and the chunks
\* are cut.
PoolBlock == Rep("a", MIN_CLEAN_LEN) \o Rep(" ", CLEAN_CHUNK_SIZE - MIN_CLEAN_LEN - 2) \o PARA
PoolText ==
  PoolBlock \o PoolBlock \o PoolBlock \o PoolBlock \o Rep("a", MIN_CLEAN_LEN)

InitCleanPool ==
  /\ interview_text = split_interviews_from_text(PoolText, <<<<0, Len(PoolText)>>>>)[1]
  /\ company = extract_company_and_interviewee_with_openai(extraction_failure("raised"))[1]
  /\ interviewee = extract_company_and_interviewee_with_openai(extraction_failure("raised"))[2]
  /\ text_chunks = chunk_text_for_processing(interview_text, CLEAN_CHUNK_SIZE)
  /\ future_to_chunk = <<>> /\ yielded = {}
  /\ results = <<>> /\ cleaned_transcript = <<>> /\ transcript_chunks = <<>>
  /\ embed_i = 0 /\ records = <<>>
  /\ interview_pc = "submit"
  /\ out_of_order = FALSE /\ embed_failed = {} /\ embedding_calls = 0
  /\ ChunkIdle
  /\ MainIdle
  /\ DocumentIdle
  /\ AuxIdle

NextCleanPool ==
  \/ submit_clean
  \/ presize_results
  \/ \E k \in 1..Len(future_to_chunk) : clean_start(k)
  \/ \E k \in 1..Len(future_to_chunk) : clean_return(k)
  \/ \E k \in 1..Len(future_to_chunk) : collect_result(k)
  \/ join_cleaned
  \/ create_transcript_records
  \/ embed_call
  \/ embed_chunk
  \/ return_records

SpecCleanPool == InitCleanPool /\ [][NextCleanPool]_vars

(***************************************************************************)
(* Claims about process_single_interview (SpecInterview)                   *)
(***************************************************************************)
joined == interview_pc \in {"records", "embed", "returned"}

\* chunk k's own result: what its cleaning call returned, or the original
\* chunk text when the call failed
own_result(k) ==
  clean_text_chunk_with_openai(text_chunks[k], future_to_chunk[k].response)

\* C2: whatever the completion order and whichever calls failed, the
\* reassembled transcript is the join, in chunk index order, of each chunk's
\* own result.
C2_ReassemblyInChunkOrder ==
  joined =>
    cleaned_transcript = join(PARA, [k \in 1..Len(text_chunks) |-> own_result(k)])

\* three chunks, yielded out of index order, one call failed and one succeeded
\* with a rewritten text
C2_Witness ==
  /\ joined
  /\ Len(text_chunks) = 3
  /\ out_of_order
  /\ \E k \in 1..3 : future_to_chunk[k].response = "error"
  /\ \E k \in 1..3 : future_to_chunk[k].response = "rewrite"

\* C20: a chunk whose cleaning call failed keeps its original text
\* unchanged, and every sibling slot of results holds that sibling's own
\* result (None until the sibling's future has been yielded), whichever
\* calls failed.
C20_FailedCleaningKeepsOriginalChunk ==
  interview_pc \in {"collect", "records", "embed", "returned"} =>
    \A k \in 1..Len(text_chunks) :
      IF k \in yielded
      THEN /\ results[k] = own_result(k)
           /\ future_to_chunk[k].response = "error" => results[k] = text_chunks[k]
      ELSE results[k] = None

\* the second of three calls failed and its slot holds the original chunk,
\* while its siblings hold rewritten texts (the third not yet collected)
C20_Witness ==
  /\ interview_pc = "collect"
  /\ Len(text_chunks) = 3
  /\ yielded = {1, 2}
  /\ future_to_chunk[2].response = "error"
  /\ results[2] = text_chunks[2]
  /\ future_to_chunk[1].response = "rewrite"
  /\ results[1] # text_chunks[1]
  /\ results[3] = None

\* the step writes one slot of results: the unset slot of a completed call
\* that as_completed had not yielded before
writes_one_unset_slot ==
  \E k \in 1..Len(results) :
    /\ future_to_chunk[k].state = "done"
    /\ yielded' = yielded \cup {k} /\ k \notin yielded
    /\ results[k] = None /\ results'[k] # None
    /\ \A j \in 1..Len(results) : j # k => results'[j] = results[j]

\* C35: results is pre-sized with one unset slot per chunk; afterwards it
\* changes only by the write of one unset slot, for a completed call not
\* yielded before; the written slots are those of the yielded futures; the
\* join is computed only when every cleaning call has completed and every
\* slot has been written, and results does not change afterwards.
C35_EverySlotWrittenOnce ==
  /\ [][results' # results =>
          \/ /\ results = <<>>
             /\ results' = [k \in 1..Len(text_chunks) |-> None]
          \/ /\ interview_pc = "collect"
             /\ Len(results') = Len(results)
             /\ writes_one_unset_slot]_vars
  /\ [](interview_pc = "collect" =>
         /\ Len(results) = Len(text_chunks)
         /\ \A k \in 1..Len(results) : results[k] # None <=> k \in yielded)
  /\ [][cleaned_transcript' # cleaned_transcript =>
          /\ \A k \in 1..Len(text_chunks) :
               future_to_chunk[k].state = "done" /\ results[k] # None
          /\ results' = results]_vars
  /\ [](joined =>
         /\ Len(results) = Len(text_chunks)
         /\ \A k \in 1..Len(results) : results[k] # None)

\* the fan-in of three chunks has finished, the futures were yielded out of
\* index order and two calls failed
C35_Witness ==
  /\ interview_pc = "records"
  /\ Len(results) = 3
  /\ out_of_order
  /\ \A k \in 1..3 : results[k] # None
  /\ Cardinality({k \in 1..3 : future_to_chunk[k].response = "error"}) = 2

\* the cleaning calls in flight: the running futures whose chunk is long
\* enough for a call to be made
calls_in_flight ==
  {k \in running : CleaningResponses(text_chunks[k]) # {"skipped"}}

\* C22: at every moment at most 4 cleaning calls of the interview are in
\* flight, however many chunks it has; a chunk beyond the fourth waits in the
\* pool's queue until a worker is free.
C22_AtMostFourCleaningCallsInFlight ==
  /\ Cardinality(calls_in_flight) <= CLEAN_WORKERS
  /\ Cardinality(running) <= CLEAN_WORKERS

\* five chunks are submitted, four calls are in flight and the fifth chunk
\* is still queued
C22_Witness ==
  /\ Len(text_chunks) = CLEAN_WORKERS + 1
  /\ interview_pc = "collect"
  /\ Cardinality(calls_in_flight) = CLEAN_WORKERS
  /\ future_to_chunk[CLEAN_WORKERS + 1].state = "queued"

\* the chunk_index values of the records, in record order
chunk_indices == [r \in 1..Len(records) |-> records[r].chunk_index]

\* the indices of 0..m-1 that are not in F, in increasing order
RECURSIVE survivors(_, _, _)
survivors(i, m, F) ==
  IF i >= m THEN <<>>
  ELSE (IF i \in F THEN <<>> ELSE <<i>>) \o survivors(i + 1, m, F)

\* C6: with m embedding chunks of which the calls of F failed, the result has
\* m - |F| records, each the record of a surviving chunk (no placeholder) with
\* total_chunks = m, the chunk_index values being the indices outside F in
\* increasing order.
C6_FailedEmbeddingsAreSkipped ==
  interview_pc = "returned" =>
    LET m == Len(transcript_chunks)
    IN  /\ Len(records) = m - Cardinality(embed_failed)
        /\ chunk_indices = survivors(0, m, embed_failed)
        /\ \A r \in 1..Len(records) :
             /\ records[r].total_chunks = m
             /\ records[r].transcript = transcript_chunks[records[r].chunk_index + 1]

\* three embedding chunks, the call of the middle one failed: two records
C6_Witness ==
  /\ interview_pc = "returned"
  /\ Len(transcript_chunks) = 3
  /\ embed_failed = {1}
  /\ Len(records) = 2

Acme == <<"A", "c", "m", "e">>
JaneDoe == <<"J", "a", "n", "e", " ", "D", "o", "e">>

\* the scenario of C7: a 12,000-character text taken as a single interview,
\* extraction returned Acme / Jane Doe, every cleaning call returned its
\* chunk's text and every embedding call succeeded
scenario_12000 ==
  /\ interview_pc = "returned"
  /\ Len(interview_text) = 12000
  /\ company = Acme /\ interviewee = JaneDoe
  /\ \A k \in 1..Len(text_chunks) : future_to_chunk[k].response = "echo"
  /\ embed_failed = {}

records_are(n) ==
  /\ Len(records) = n
  /\ chunk_indices = [r \in 1..n |-> r - 1]
  /\ \A r \in 1..n : records[r].company = Acme /\ records[r].total_chunks = n

\* C7 as stated: the scenario produces exactly 2 records, with company Acme,
\* total_chunks = 2 and chunk_index 0 and 1.
C7_ScenarioGivesTwoRecords == scenario_12000 => records_are(2)

\* C7 amended: when the 12,000 characters hold no whitespace, the scenario
\* produces exactly 3 records, with company Acme, total_chunks = 3 and
\* chunk_index 0, 1, 2: the cleaning chunks of 5000, 5000 and 2000 characters
\* are rejoined with paragraph breaks, at which the embedding chunker cuts.
C7_ScenarioGivesThreeRecords ==
  (scenario_12000 /\ \A p \in 1..Len(interview_text) : interview_text[p] \notin Whitespace)
    => /\ records_are(3)
       /\ \A r \in 1..3 : records[r].transcript = text_chunks[r]

C7_Witness == scenario_12000 /\ Len(records) = 3

(***************************************************************************)
(* Spec: main and the process_pdf tasks                                    *)
(***************************************************************************)
BATCH_SIZE == 50       \* Pinecone batch size
PINECONE_NAMESPACE == "transcripts"
MAX_PDF_WORKERS == 4   \* max_workers = min(4, len(pdf_paths))

MIN_TEXT_LEN == 100    \* len(raw_text.strip()) < 100

MaxDocs == 2           \* most documents in PDF_FOLDER

\* mutant: only an empty text is refused
text_too_short_when_empty(raw_text) == raw_text = <<>>

\* not raw_text or len(raw_text.strip()) < 100
text_too_short(raw_text) == raw_text = <<>> \/ Len(strip(raw_text)) < MIN_TEXT_LEN

Docs == 1..pdf_count

\* What process_single_interview can do for process_pdf: raise, or return the
\* records of m embedding chunks without those of the failed calls. With one
\* record more than half a batch each, the records of one interview fit one
\* batch and those of two interviews take two passes of the upsert loop.
InterviewCounts == {1, 2}
InterviewOutcomes ==
  { [raised |-> TRUE, m |-> 0, failed |-> {}],
    [raised |-> FALSE, m |-> (BATCH_SIZE \div 2) + 2, failed |-> {0}] }

PDF_FOLDER == "data/transcripts"

\* mutant: the path is read from a variable shared by the tasks, which holds
\* the path submitted last
source_name_of_last_submitted(d) == submitted

\* pdf_path.name of the task's own pdf_path: the files of one folder are told
\* apart by their names
source_name_of(d) == d

\* str(pdf_path.resolve()): the folder and the name
source_path_of(d) == <<PDF_FOLDER, d>>

\* the records process_single_interview returns for interview j of document d
RECURSIVE interview_records(_, _, _, _, _)
interview_records(d, j, i, m, failed) ==
  IF i >= m THEN <<>>
  ELSE (IF i \in failed THEN <<>>
        ELSE <<[id |-> <<d, j, i>>, source_name |-> source_name_of(d),
                source_path |-> source_path_of(d), chunk_index |-> i, total_chunks |-> m]>>)
       \o interview_records(d, j, i + 1, m, failed)

Init ==
  /\ pdf_count \in 1..MaxDocs
  /\ submitted = 0
  /\ task_pc = [d \in Docs |-> "new"]
  /\ interview_count = [d \in Docs |-> 0]
  /\ interview_i = [d \in Docs |-> 0]
  /\ all_records = [d \in Docs |-> <<>>]
  /\ upsert_i = [d \in Docs |-> 0]
  /\ future_count = [d \in Docs |-> 0]
  /\ pinecone_lock = 0
  /\ store = <<>>
  /\ total_records = 0
  /\ consumed = {}
  /\ main_pc = "submit"
  /\ interview_log = [d \in Docs |-> <<>>]
  /\ raw_texts = [d \in Docs |-> None]
  /\ task_runs = [d \in Docs |-> 0]
  /\ ChunkIdle
  /\ InterviewIdle
  /\ DocumentIdle
  /\ AuxIdle

\* executor.submit(process_pdf, pdf_path) for the next path
submit_pdf ==
  /\ main_pc = "submit"
  /\ submitted < pdf_count
  /\ submitted' = submitted + 1
  /\ task_pc' = [task_pc EXCEPT ![submitted + 1] = "queued"]
  /\ UNCHANGED <<pdf_count, task_runs, raw_texts, interview_count, interview_i, all_records,
                 upsert_i,
                 future_count, pinecone_lock, store, total_records, consumed, main_pc,
                 interview_log, chunk_vars, interview_vars, doc_vars, aux_vars>>

\* every path is submitted: `for future in as_completed(future_to_pdf)` begins
begin_as_completed ==
  /\ main_pc = "submit"
  /\ submitted = pdf_count
  /\ main_pc' = "collect"
  /\ UNCHANGED <<pdf_count, task_runs, raw_texts, submitted, task_pc, interview_count,
                 interview_i, all_records,
                 upsert_i, future_count, pinecone_lock, store, total_records, consumed,
                 interview_log, chunk_vars, interview_vars, doc_vars, aux_vars>>

\* mutant: one worker per document
pool_size_of_all_documents == pdf_count

\* max_workers = min(4, len(pdf_paths))
pool_size == Min2(MAX_PDF_WORKERS, pdf_count)

in_progress == {d \in Docs : task_pc[d] \notin {"new", "queued", "returned", "raised"}}

\* a free worker of the pool takes the oldest queued process_pdf call
start_task(d) ==
  /\ task_pc[d] = "queued"
  /\ \A e \in 1..(d - 1) : task_pc[e] # "queued"
  /\ Cardinality(in_progress) < pool_size
  /\ task_pc' = [task_pc EXCEPT ![d] = "extract"]
  /\ task_runs' = [task_runs EXCEPT ![d] = @ + 1]
  /\ UNCHANGED <<pdf_count, raw_texts, submitted, interview_count, interview_i, all_records,
                 upsert_i,
                 future_count, pinecone_lock, store, total_records, consumed, main_pc,
                 interview_log, chunk_vars, interview_vars, doc_vars, aux_vars>>

\* process_pdf returns count: the future holds it, the locals are gone
returns(d, count) ==
  /\ task_pc' = [task_pc EXCEPT ![d] = "returned"]
  /\ future_count' = [future_count EXCEPT ![d] = count]
  /\ all_records' = [all_records EXCEPT ![d] = <<>>]
  /\ interview_log' = [interview_log EXCEPT ![d] = <<>>]

\* process_pdf raises: the future holds the exception, the locals are gone
raises(d) ==
  /\ task_pc' = [task_pc EXCEPT ![d] = "raised"]
  /\ all_records' = [all_records EXCEPT ![d] = <<>>]
  /\ interview_log' = [interview_log EXCEPT ![d] = <<>>]
  /\ UNCHANGED future_count

\* The texts extract_text_from_pdf may return in a run: empty, one character
\* short of the minimum, and the minimum.
PdfTexts == {<<>>, Rep("a", MIN_TEXT_LEN - 1), Rep("a", MIN_TEXT_LEN)}

\* raw_text = extract_text_from_pdf(pdf_path): the reader raises, or returns
\* a text; `if not raw_text or len(raw_text.strip()) < 100: return 0`
extract_text_from(d, texts) ==
  /\ task_pc[d] = "extract"
  /\ \/ raises(d) /\ UNCHANGED raw_texts
     \/ \E extracted \in texts :
          /\ raw_texts' = [raw_texts EXCEPT ![d] = extracted]
          /\ IF text_too_short(extracted)
             THEN returns(d, 0)
             ELSE /\ task_pc' = [task_pc EXCEPT ![d] = "split"]
                  /\ UNCHANGED <<future_count, all_records, interview_log>>
  /\ UNCHANGED <<pdf_count, task_runs, submitted, interview_count, interview_i, upsert_i,
                 pinecone_lock, store, total_records, consumed, main_pc, chunk_vars,
                 interview_vars, doc_vars, aux_vars>>

extract_text(d) == extract_text_from(d, PdfTexts)

\* interview_texts = split_interviews_from_text(raw_text), never empty;
\* all_records = []
split_interviews_into(d, counts) ==
  /\ task_pc[d] = "split"
  /\ \E k \in counts : interview_count' = [interview_count EXCEPT ![d] = k]
  /\ interview_i' = [interview_i EXCEPT ![d] = 0]
  /\ all_records' = [all_records EXCEPT ![d] = <<>>]
  /\ task_pc' = [task_pc EXCEPT ![d] = "interviews"]
  /\ UNCHANGED <<pdf_count, task_runs, raw_texts, submitted, upsert_i, future_count,
                 pinecone_lock, store,
                 total_records, consumed, main_pc, interview_log, chunk_vars,
                 interview_vars, doc_vars, aux_vars>>

split_interviews(d) == split_interviews_into(d, InterviewCounts)

\* mutant: an exception of process_single_interview ends the interview loop
after_interview_raised_break(d) == interview_count[d]

\* except Exception: ... continue
after_interview_raised(d) == interview_i[d] + 1

\* one pass of the interview loop: process_single_interview returns records,
\* which extend all_records, or raises, which is caught
process_interview_with(d, outcomes) ==
  /\ task_pc[d] = "interviews"
  /\ interview_i[d] < interview_count[d]
  /\ \E outcome \in outcomes :
       IF outcome.raised
       THEN /\ interview_i' = [interview_i EXCEPT ![d] = after_interview_raised(d)]
            /\ interview_log' = [interview_log EXCEPT ![d] = Append(@, outcome)]
            /\ UNCHANGED all_records
       ELSE LET recs == interview_records(d, interview_i[d] + 1, 0, outcome.m, outcome.failed)
            IN  /\ all_records' = [all_records EXCEPT ![d] = @ \o recs]
                /\ interview_i' = [interview_i EXCEPT ![d] = @ + 1]
                /\ interview_log' = [interview_log EXCEPT ![d] = Append(@, outcome)]
  /\ UNCHANGED <<pdf_count, task_runs, raw_texts, submitted, task_pc, interview_count, upsert_i,
                 future_count,
                 pinecone_lock, store, total_records, consumed, main_pc, chunk_vars,
                 interview_vars, doc_vars, aux_vars>>

process_interview(d) == process_interview_with(d, InterviewOutcomes)

\* the interview loop is over: `if not all_records: return 0`, else go on to
\* `with pinecone_lock`
end_interviews(d) ==
  /\ task_pc[d] = "interviews"
  /\ interview_i[d] >= interview_count[d]
  /\ IF all_records[d] = <<>>
     THEN returns(d, 0)
     ELSE /\ task_pc' = [task_pc EXCEPT ![d] = "lock"]
          /\ UNCHANGED <<future_count, all_records, interview_log>>
  /\ UNCHANGED <<pdf_count, task_runs, raw_texts, submitted, interview_count, interview_i, upsert_i,
                 pinecone_lock, store, total_records, consumed, main_pc, chunk_vars,
                 interview_vars, doc_vars, aux_vars>>

\* mutant: the upsert loop is entered without the lock being free
lock_is_free_unchecked == TRUE

lock_is_free == pinecone_lock = 0

\* with pinecone_lock: the lock is acquired
acquire_lock(d) ==
  /\ task_pc[d] = "lock"
  /\ lock_is_free
  /\ pinecone_lock' = d
  /\ upsert_i' = [upsert_i EXCEPT ![d] = 0]
  /\ task_pc' = [task_pc EXCEPT ![d] = "upsert"]
  /\ UNCHANGED <<pdf_count, task_runs, raw_texts, submitted, interview_count, interview_i,
                 all_records,
                 future_count, store, total_records, consumed, main_pc, interview_log,
                 chunk_vars, interview_vars, doc_vars, aux_vars>>

\* mutant: the slice runs one record into the next batch
batch_at_one_more(d) == Slice(all_records[d], upsert_i[d], upsert_i[d] + BATCH_SIZE + 1)

\* batch = all_records[i:i + BATCH_SIZE]
batch_at(d) == Slice(all_records[d], upsert_i[d], upsert_i[d] + BATCH_SIZE)

\* index.upsert(vectors=batch, namespace=PINECONE_NAMESPACE)
upsert_call(d) == [vectors |-> batch_at(d), namespace |-> PINECONE_NAMESPACE]

\* mutant: an exception in the with block leaves the lock with the task
lock_after_raise_kept(d) == d

\* `with pinecone_lock:` releases the lock when an exception leaves the block
lock_after_raise(d) == 0

\* one pass of the upsert loop: index.upsert(vectors=batch, ...) returns, or
\* raises, which leaves the with block (releasing the lock) and process_pdf
upsert_batch(d) ==
  /\ task_pc[d] = "upsert"
  /\ upsert_i[d] < Len(all_records[d])
  /\ \/ /\ store' = Append(store, upsert_call(d))
        /\ upsert_i' = [upsert_i EXCEPT ![d] = @ + BATCH_SIZE]
        /\ UNCHANGED <<task_pc, all_records, future_count, pinecone_lock, interview_log>>
     \/ /\ raises(d)
        /\ pinecone_lock' = lock_after_raise(d)
        /\ UNCHANGED <<store, upsert_i>>
  /\ UNCHANGED <<pdf_count, task_runs, raw_texts, submitted, interview_count, interview_i,
                 total_records,
                 consumed, main_pc, chunk_vars, interview_vars, doc_vars, aux_vars>>

\* mutant: the lock stays with the task after its last batch
lock_after_last_batch_kept(d) == d

\* the with block is left after the last batch: the lock is released
lock_after_last_batch(d) == 0

\* the upsert loop is over: the with block releases the lock
release_lock(d) ==
  /\ task_pc[d] = "upsert"
  /\ upsert_i[d] >= Len(all_records[d])
  /\ pinecone_lock' = lock_after_last_batch(d)
  /\ task_pc' = [task_pc EXCEPT ![d] = "unlock"]
  /\ UNCHANGED <<pdf_count, task_runs, raw_texts, submitted, interview_count, interview_i,
                 all_records, upsert_i,
                 future_count, store, total_records, consumed, main_pc, interview_log,
                 chunk_vars, interview_vars, doc_vars, aux_vars>>

\* return len(all_records)
return_count(d) ==
  /\ task_pc[d] = "unlock"
  /\ returns(d, Len(all_records[d]))
  /\ UNCHANGED <<pdf_count, task_runs, raw_texts, submitted, interview_count, interview_i, upsert_i,
                 pinecone_lock, store, total_records, consumed, main_pc, chunk_vars,
                 interview_vars, doc_vars, aux_vars>>

\* mutant: as_completed yields a future whatever its task is doing
future_resolved_or_not(d) == TRUE

\* as_completed yields a future once its task has returned or raised
future_resolved(d) == task_pc[d] \in {"returned", "raised"}

\* mutant: future.result() is not guarded, the exception of a document ends
\* the collecting loop
after_future_raised_abort == "done"

\* except Exception: ... continue
after_future_raised == "collect"

\* mutant: a document that raised is counted with the records it had written
count_of_raised_as_written(d) == upsert_i[d]

\* future.result() raises: `total_records += count` is not reached
count_of_raised(d) == 0

\* one pass of `for future in as_completed(future_to_pdf)`: count =
\* future.result(); total_records += count, or the exception is caught
collect_future(d) ==
  /\ main_pc = "collect"
  /\ d \notin consumed
  /\ future_resolved(d)
  /\ consumed' = consumed \cup {d}
  /\ IF task_pc[d] = "returned"
     THEN total_records' = total_records + future_count[d] /\ main_pc' = "collect"
     ELSE /\ total_records' = total_records + count_of_raised(d)
          /\ main_pc' = after_future_raised
  /\ UNCHANGED <<pdf_count, task_runs, raw_texts, submitted, task_pc, interview_count,
                 interview_i, all_records,
                 upsert_i, future_count, pinecone_lock, store, interview_log, chunk_vars,
                 interview_vars, doc_vars, aux_vars>>

\* as_completed is exhausted and the pool shut down: the summary is printed
\* with total_records
print_summary ==
  /\ main_pc = "collect"
  /\ consumed = Docs
  /\ main_pc' = "done"
  /\ UNCHANGED <<pdf_count, task_runs, raw_texts, submitted, task_pc, interview_count,
                 interview_i, all_records,
                 upsert_i, future_count, pinecone_lock, store, total_records, consumed,
                 interview_log, chunk_vars, interview_vars, doc_vars, aux_vars>>

Next ==
  \/ submit_pdf
  \/ begin_as_completed
  \/ \E d \in Docs : start_task(d)
  \/ \E d \in Docs : extract_text(d)
  \/ \E d \in Docs : split_interviews(d)
  \/ \E d \in Docs : process_interview(d)
  \/ \E d \in Docs : end_interviews(d)
  \/ \E d \in Docs : acquire_lock(d)
  \/ \E d \in Docs : upsert_batch(d)
  \/ \E d \in Docs : release_lock(d)
  \/ \E d \in Docs : return_count(d)
  \/ \E d \in Docs : collect_future(d)
  \/ print_summary

Spec == Init /\ [][Next]_vars

(***************************************************************************)
(* SpecPdfPool: main over more documents than the pool has workers         *)
(***************************************************************************)
MaxPoolDocs == 5       \* most documents in PDF_FOLDER in these runs

\* The documents of these runs hold no meaningful text (scans, unreadable
\* files): the reader raises or returns fewer than 100 characters, and
\* process_pdf ends at line 410 at the latest.
ShortPdfTexts == {raw_text \in PdfTexts : text_too_short(raw_text)}

InitPdfPool ==
  /\ pdf_count \in 1..MaxPoolDocs
  /\ submitted = 0
  /\ task_pc = [d \in Docs |-> "new"]
  /\ interview_count = [d \in Docs |-> 0]
  /\ interview_i = [d \in Docs |-> 0]
  /\ all_records = [d \in Docs |-> <<>>]
  /\ upsert_i = [d \in Docs |-> 0]
  /\ future_count = [d \in Docs |-> 0]
  /\ pinecone_lock = 0
  /\ store = <<>>
  /\ total_records = 0
  /\ consumed = {}
  /\ main_pc = "submit"
  /\ interview_log = [d \in Docs |-> <<>>]
  /\ raw_texts = [d \in Docs |-> None]
  /\ task_runs = [d \in Docs |-> 0]
  /\ ChunkIdle
  /\ InterviewIdle
  /\ DocumentIdle
  /\ AuxIdle

NextPdfPool ==
  \/ submit_pdf
  \/ begin_as_completed
  \/ \E d \in Docs : start_task(d)
  \/ \E d \in Docs : extract_text_from(d, ShortPdfTexts)
  \/ \E d \in Docs : collect_future(d)
  \/ print_summary

SpecPdfPool == InitPdfPool /\ [][NextPdfPool]_vars

(***************************************************************************)
(* SpecLoad: the upsert loop of one document, for every number of records  *)
(***************************************************************************)
MaxRecords == 101      \* most records in all_records in these runs

\* The run of one document, taken up where the loop over its one interview is
\* over and process_single_interview has returned n records (one embedding
\* call of n + 1 failed).
InitLoad ==
  /\ pdf_count = 1
  /\ submitted = 1
  /\ task_pc = [d \in Docs |-> "interviews"]
  /\ interview_count = [d \in Docs |-> 1]
  /\ interview_i = [d \in Docs |-> 1]
  /\ \E n \in 0..MaxRecords :
       /\ all_records = [d \in Docs |-> interview_records(d, 1, 0, n + 1, {0})]
       /\ interview_log = [d \in Docs |-> <<[raised |-> FALSE, m |-> n + 1, failed |-> {0}]>>]
  /\ upsert_i = [d \in Docs |-> 0]
  /\ future_count = [d \in Docs |-> 0]
  /\ pinecone_lock = 0
  /\ store = <<>>
  /\ total_records = 0
  /\ consumed = {}
  /\ main_pc = "collect"
  /\ raw_texts = [d \in Docs |-> Rep("a", MIN_TEXT_LEN)]
  /\ task_runs = [d \in Docs |-> 1]
  /\ ChunkIdle
  /\ InterviewIdle
  /\ DocumentIdle
  /\ AuxIdle

NextLoad ==
  \/ \E d \in Docs : end_interviews(d)
  \/ \E d \in Docs : acquire_lock(d)
  \/ \E d \in Docs : upsert_batch(d)
  \/ \E d \in Docs : release_lock(d)
  \/ \E d \in Docs : return_count(d)
  \/ \E d \in Docs : collect_future(d)
  \/ print_summary

SpecLoad == InitLoad /\ [][NextLoad]_vars

(***************************************************************************)
(* Claims about main and process_pdf                                       *)
(***************************************************************************)
RECURSIVE flatten(_)
flatten(seqs) == IF seqs = <<>> THEN <<>> ELSE Head(seqs) \o flatten(Tail(seqs))

\* the document whose task made the k-th upsert call
upserted_by(k) == store[k].vectors[1].source_name

\* the records the upsert calls of document d have written, in call order
calls_of(d) == SelectSeq(store, LAMBDA call : call.vectors[1].source_name = d)
written_by(d) == flatten([k \in 1..Len(calls_of(d)) |-> calls_of(d)[k].vectors])

in_upsert_loop == {d \in Docs : task_pc[d] = "upsert"}

\* C1: at any time at most one document task is inside the upsert loop, and
\* the upsert calls of one document are contiguous: no call of another
\* document lies between two calls of the same document.
C1_UpsertLoopIsMutuallyExclusive ==
  /\ Cardinality(in_upsert_loop) <= 1
  /\ \A i \in 1..Len(store) : \A k \in i..Len(store) :
       upserted_by(i) = upserted_by(k)
         => \A j \in i..k : upserted_by(j) = upserted_by(i)

\* a task is between two batches of its document while another task, with
\* records to upsert, waits for the lock
C1_Witness ==
  \E d \in Docs : \E e \in Docs \ {d} :
    /\ task_pc[d] = "upsert"
    /\ upsert_i[d] > 0
    /\ upsert_i[d] < Len(all_records[d])
    /\ task_pc[e] = "lock"

ended == {d \in Docs : task_pc[d] \in {"returned", "raised"}}

RECURSIVE sum_of_counts(_)
sum_of_counts(ds) ==
  IF ds = {} THEN 0
  ELSE LET d == CHOOSE x \in ds : TRUE IN future_count[d] + sum_of_counts(ds \ {d})

\* C3: a document that raises does not stop the others. A raising task never
\* keeps the lock, so that a waiting task is never held up by a task that has
\* ended; the run ends only when every document task has ended and been
\* collected; every task that returned has its records in the store and its
\* count in total_records.
C3_RaisingDocumentDoesNotStopOthers ==
  /\ pinecone_lock # 0 => task_pc[pinecone_lock] = "upsert"
  /\ main_pc = "done" =>
       /\ ended = Docs
       /\ consumed = Docs
       /\ total_records = sum_of_counts({d \in Docs : task_pc[d] = "returned"})
  /\ \A d \in Docs : task_pc[d] = "returned" => Len(written_by(d)) = future_count[d]

\* the run is over; one document raised and another returned with records,
\* which are in the store and counted
C3_Witness ==
  /\ main_pc = "done"
  /\ \E d \in Docs : \E e \in Docs \ {d} :
       /\ task_pc[d] = "raised"
       /\ task_pc[e] = "returned"
       /\ future_count[e] > 0
       /\ Len(written_by(e)) = future_count[e]
       /\ total_records >= future_count[e]

\* the records of the first j logged interviews of document d that did not
\* raise, in order
RECURSIVE records_of_log(_, _)
records_of_log(d, j) ==
  IF j = 0 THEN <<>>
  ELSE LET outcome == interview_log[d][j]
       IN  records_of_log(d, j - 1)
           \o (IF outcome.raised THEN <<>>
               ELSE interview_records(d, j, 0, outcome.m, outcome.failed))

after_interview_loop == {"lock", "upsert", "unlock"}

\* C4: an interview that raises contributes no record and the loop goes on
\* to the next interview: all_records holds exactly the records of the
\* interviews that did not raise, every interview has been gone through when
\* the loop is left, and these records are what the upsert loop has written
\* when it is over.
C4_RaisingInterviewDoesNotStopOthers ==
  \A d \in Docs :
    /\ task_pc[d] \in {"interviews"} \cup after_interview_loop =>
         /\ Len(interview_log[d]) = interview_i[d]
         /\ all_records[d] = records_of_log(d, interview_i[d])
    /\ task_pc[d] \in after_interview_loop => interview_i[d] = interview_count[d]
    /\ task_pc[d] = "unlock" => written_by(d) = all_records[d]

\* the first interview of a document raised, and the records of the second
\* are upserted
C4_Witness ==
  \E d \in Docs :
    /\ task_pc[d] = "unlock"
    /\ interview_count[d] = 2
    /\ interview_log[d][1].raised
    /\ ~interview_log[d][2].raised
    /\ written_by(d) = records_of_log(d, 2)
    /\ written_by(d) # <<>>

RECURSIVE records_in(_)
records_in(calls) ==
  IF calls = <<>> THEN 0 ELSE Len(Head(calls).vectors) + records_in(Tail(calls))

\* C5: when the run is over, the total of the summary is the number of
\* records the upsert calls have written.
C5_TotalIsWhatWasWritten ==
  main_pc = "done" => total_records = records_in(store)

\* the documents whose extracted text is shorter than 100 characters after
\* trimming
short_documents ==
  {d \in Docs : raw_texts[d] # None /\ Len(strip(raw_texts[d])) < MIN_TEXT_LEN}

\* C17: for a document whose extracted text has fewer than 100 characters
\* after trimming, process_pdf returns 0 without raising, interview detection
\* and process_single_interview are never reached and nothing is upserted;
\* at the end of the run the document has been collected and has added 0 to
\* the total.
C17_ShortDocumentGivesZeroRecords ==
  \A d \in short_documents :
    /\ task_pc[d] = "returned"
    /\ future_count[d] = 0
    /\ interview_count[d] = 0
    /\ interview_log[d] = <<>>
    /\ written_by(d) = <<>>
    /\ main_pc = "done" =>
         /\ d \in consumed
         /\ total_records = sum_of_counts({e \in Docs \ {d} : task_pc[e] = "returned"})

\* the run is over with a document of 99 characters, which gave nothing, and
\* another whose records make the whole total
C17_Witness ==
  /\ main_pc = "done"
  /\ \E d \in short_documents : \E e \in Docs \ {d} :
       /\ Len(raw_texts[d]) = MIN_TEXT_LEN - 1
       /\ d \in consumed
       /\ future_count[e] > 0
       /\ total_records = future_count[e]

\* C23: at every moment at most min(4, n) of the n discovered documents are
\* being processed; every discovered document is submitted, in the order of
\* pdf_paths, and a worker starts process_pdf for it exactly once: never
\* twice, and once for each document by the time the run is over.
C23_AtMostFourDocumentsAtATime ==
  /\ Cardinality(in_progress) <= Min2(MAX_PDF_WORKERS, pdf_count)
  /\ \A d \in Docs :
       /\ task_runs[d] <= 1
       /\ task_pc[d] # "new" <=> d <= submitted
       /\ task_runs[d] = 1 <=> task_pc[d] \notin {"new", "queued"}
  /\ main_pc \in {"collect", "done"} => submitted = pdf_count
  /\ main_pc = "done" => \A d \in Docs : task_runs[d] = 1 /\ d \in ended /\ d \in consumed

\* five documents are submitted, four are being processed and the fifth
\* waits in the pool's queue
C23_Witness ==
  /\ pdf_count = MAX_PDF_WORKERS + 1
  /\ Cardinality(in_progress) = MAX_PDF_WORKERS
  /\ task_pc[pdf_count] = "queued"
  /\ task_runs[pdf_count] = 0

\* ceil(n / BATCH_SIZE)
batches_needed(n) == (n + BATCH_SIZE - 1) \div BATCH_SIZE

\* C25: every upsert call goes to the namespace "transcripts" with a batch
\* of 1 to 50 records; while the loop runs, the batches written so far
\* concatenate to the first records of all_records, in order; when it is over
\* without a failing call, ceil(n / 50) calls have been made for the n >= 1
\* records and their batches concatenate to all_records, each record being
\* written once; a document with no record makes no call.
C25_OneUpsertPerBatchOfFifty ==
  \A d \in Docs :
    LET calls == calls_of(d)
        written == written_by(d)
        ids == [i \in 1..Len(written) |-> written[i].id]
        n == Len(all_records[d])
    IN  /\ \A k \in 1..Len(calls) :
             /\ calls[k].namespace = "transcripts"
             /\ Len(calls[k].vectors) \in 1..50
        /\ \A i \in 1..Len(ids) : \A j \in 1..(i - 1) : ids[i] # ids[j]
        /\ task_pc[d] \in {"interviews", "lock"} => calls = <<>>
        /\ task_pc[d] = "upsert" =>
             /\ written = SubSeq(all_records[d], 1, Min2(upsert_i[d], n))
             /\ Len(calls) = upsert_i[d] \div 50
        /\ task_pc[d] = "unlock" =>
             /\ n >= 1
             /\ Len(calls) = batches_needed(n)
             /\ written = all_records[d]
        /\ task_pc[d] = "returned" =>
             /\ Len(calls) = batches_needed(future_count[d])
             /\ Len(written) = future_count[d]
             /\ future_count[d] = 0 => calls = <<>>

\* 101 records were written by three calls, of 50, 50 and 1 records
C25_Witness ==
  \E d \in Docs :
    /\ task_pc[d] = "unlock"
    /\ Len(all_records[d]) = 2 * BATCH_SIZE + 1
    /\ Len(calls_of(d)) = 3
    /\ Len(calls_of(d)[3].vectors) = 1
    /\ written_by(d) = all_records[d]

\* the step is one pass of main's collecting loop over the resolved future of
\* a document that returned, adding its count
adds_count_of_resolved_future ==
  /\ main_pc = "collect"
  /\ task_pc' = task_pc
  /\ \E d \in Docs \ consumed :
       /\ task_pc[d] = "returned"
       /\ consumed' = consumed \cup {d}
       /\ total_records' = total_records + future_count[d]

\* C31: total_records changes only in main's collecting loop, by the count of
\* a document not collected before whose future has resolved, and in no step
\* of a document task; at every moment it is the sum of the counts of the
\* collected documents that returned, so that at the summary it is the sum of
\* the counts of all documents that returned, whatever the completion order.
C31_CounterIsCombinedAtFanIn ==
  /\ [][total_records' # total_records => adds_count_of_resolved_future]_vars
  /\ [](consumed \subseteq ended)
  /\ [](total_records = sum_of_counts({d \in consumed : task_pc[d] = "returned"}))
  /\ [](main_pc = "done" =>
         total_records = sum_of_counts({d \in Docs : task_pc[d] = "returned"}))

\* the summary of a run of two documents that both returned records
C31_Witness ==
  /\ main_pc = "done"
  /\ pdf_count = 2
  /\ \A d \in Docs : task_pc[d] = "returned" /\ future_count[d] > 0
  /\ total_records = future_count[1] + future_count[2]

\* the step is an upsert call of the task that holds the lock, with records
\* that this task built and that carry its document's name and path
upserts_own_records ==
  \E d \in Docs :
    /\ pinecone_lock = d
    /\ task_pc[d] = "upsert"
    /\ Len(store') = Len(store) + 1
    /\ SubSeq(store', 1, Len(store)) = store
    /\ LET batch == store'[Len(store')].vectors
       IN  /\ batch # <<>>
           /\ \A i \in 1..Len(batch) :
                /\ batch[i].source_name = d
                /\ batch[i].source_path = <<PDF_FOLDER, d>>
                /\ batch[i].id[1] = d
                /\ \E r \in 1..Len(all_records[d]) : all_records[d][r] = batch[i]

\* every batch in the store holds records of one document, named in them
one_document_per_batch ==
  \A k \in 1..Len(store) :
    LET batch == store[k].vectors
    IN  \E d \in Docs : \A i \in 1..Len(batch) :
          /\ batch[i].source_name = d
          /\ batch[i].source_path = <<PDF_FOLDER, d>>
          /\ batch[i].id[1] = d

\* C32: under every interleaving of the document tasks, the store changes
\* only by an upsert call of the task holding the lock, whose records were
\* all built by that task and carry the name and path of its document, so
\* that every batch in the store holds records of a single document.
C32_RecordsCarryTheirOwnDocument ==
  /\ [][store' # store => upserts_own_records]_vars
  /\ []one_document_per_batch

\* the store holds a batch of the second document followed by two batches of
\* the first: the tasks overtook each other
C32_Witness ==
  /\ Len(store) = 3
  /\ store[1].vectors[1].source_name = 2
  /\ store[2].vectors[1].source_name = 1
  /\ store[3].vectors[1].source_name = 1

\* the documents whose task raised in the upsert loop (the reader had
\* returned their text)
raised_in_upsert == {d \in Docs : task_pc[d] = "raised" /\ raw_texts[d] # None}

\* C38: while a task is in its upsert loop the store holds the batches
\* before the current one; the step in which its upsert call raises leaves
\* the store as it is and ends the task with an exception; no call of that
\* document is added afterwards; main collects the exception and leaves
\* total_records unchanged, so that at the summary the total is the sum of
\* the counts of the documents that returned.
C38_RaisedUpsertKeepsEarlierBatches ==
  /\ [](\A d \in Docs : task_pc[d] = "upsert" =>
          written_by(d) = SubSeq(all_records[d], 1, Min2(upsert_i[d], Len(all_records[d]))))
  /\ [][\A d \in Docs : (task_pc[d] = "upsert" /\ task_pc'[d] = "raised") =>
          /\ upsert_i[d] < Len(all_records[d])
          /\ store' = store
          /\ total_records' = total_records]_vars
  /\ [][\A d \in Docs : task_pc[d] = "raised" =>
          /\ task_pc'[d] = "raised"
          /\ Len(store') > Len(store) => store'[Len(store')].vectors[1].source_name # d
          /\ SubSeq(store', 1, Len(store)) = store
          /\ (d \in consumed' \ consumed) =>
               total_records' = total_records /\ main_pc' = "collect"]_vars
  /\ [](main_pc = "done" =>
         /\ raised_in_upsert \subseteq consumed
         /\ total_records = sum_of_counts(Docs \ {d \in Docs : task_pc[d] = "raised"}))

\* the summary of a run in which the second upsert call of a document raised:
\* its first batch is in the store and it counts for nothing
C38_Witness ==
  /\ main_pc = "done"
  /\ \E d \in raised_in_upsert :
       /\ Len(calls_of(d)) = 1
       /\ Len(written_by(d)) = BATCH_SIZE
       /\ total_records = sum_of_counts(Docs \ {d})

\* C29: no failure of an external call leaves process_pdf as an exception:
\* no document task's future holds an exception.
C29_NoFutureHoldsAnException == \A d \in Docs : task_pc[d] # "raised"

(***************************************************************************)
(* FairSpec: a whole run of main, from the search for PDF files, in which  *)
(* some enabled step is always taken in the end (every thread that can run *)
(* is scheduled, every external call returns or raises)                    *)
(***************************************************************************)
MaxRunDocs == 2        \* most documents in PDF_FOLDER in these runs

\* one character short of the minimum, and the minimum
RunTexts == {Rep("a", MIN_TEXT_LEN - 1), Rep("a", MIN_TEXT_LEN)}

\* every document holds one interview
RunInterviewCounts == {1}

InitMain ==
  /\ pdf_count \in 0..MaxRunDocs
  /\ submitted = 0
  /\ task_pc = [d \in Docs |-> "new"]
  /\ interview_count = [d \in Docs |-> 0]
  /\ interview_i = [d \in Docs |-> 0]
  /\ all_records = [d \in Docs |-> <<>>]
  /\ upsert_i = [d \in Docs |-> 0]
  /\ future_count = [d \in Docs |-> 0]
  /\ pinecone_lock = 0
  /\ store = <<>>
  /\ total_records = 0
  /\ consumed = {}
  /\ main_pc = "find"
  /\ interview_log = [d \in Docs |-> <<>>]
  /\ raw_texts = [d \in Docs |-> None]
  /\ task_runs = [d \in Docs |-> 0]
  /\ ChunkIdle
  /\ InterviewIdle
  /\ DocumentIdle
  /\ AuxIdle

\* `if not PDF_FOLDER.exists(): ... return` and `if not pdf_paths: ... return`:
\* without a PDF main returns before the pool and the summary
find_pdfs ==
  /\ main_pc = "find"
  /\ main_pc' = IF pdf_count = 0 THEN "returned" ELSE "submit"
  /\ UNCHANGED <<pdf_count, task_runs, raw_texts, submitted, task_pc, interview_count,
                 interview_i, all_records, upsert_i, future_count, pinecone_lock, store,
                 total_records, consumed, interview_log, chunk_vars, interview_vars,
                 doc_vars, aux_vars>>

NextMain ==
  \/ find_pdfs
  \/ submit_pdf
  \/ begin_as_completed
  \/ \E d \in Docs : start_task(d)
  \/ \E d \in Docs : extract_text_from(d, RunTexts)
  \/ \E d \in Docs : split_interviews_into(d, RunInterviewCounts)
  \/ \E d \in Docs : process_interview(d)
  \/ \E d \in Docs : end_interviews(d)
  \/ \E d \in Docs : acquire_lock(d)
  \/ \E d \in Docs : upsert_batch(d)
  \/ \E d \in Docs : release_lock(d)
  \/ \E d \in Docs : return_count(d)
  \/ \E d \in Docs : collect_future(d)
  \/ print_summary

FairSpec == InitMain /\ [][NextMain]_vars /\ WF_vars(NextMain)

run_is_over ==
  /\ main_pc \in {"done", "returned"}
  /\ main_pc = "done" <=> pdf_count > 0
  /\ \A d \in Docs : task_pc[d] \in {"returned", "raised"}
  /\ consumed = Docs
  /\ pinecone_lock = 0

frees_lock_at_end_of_upserts ==
  LET d == pinecone_lock
  IN  \/ /\ upsert_i[d] >= Len(all_records[d])
         /\ task_pc'[d] = "unlock"
         /\ store' = store
      \/ /\ upsert_i[d] < Len(all_records[d])
         /\ task_pc'[d] = "raised"
         /\ store' = store

\* C37: the lock is held exactly by a task inside its upsert loop, never by
\* a task extracting text, splitting or processing interviews; it is taken
\* only when free; it is freed when the last batch of its holder has returned
\* or when an upsert call of its holder raises; a task waiting for the lock
\* holds it in the end.
C37_LockHeldOnlyForUpserts ==
  /\ [](\A d \in Docs : pinecone_lock = d <=> task_pc[d] = "upsert")
  /\ [](pinecone_lock \in {0} \cup Docs)
  /\ [][pinecone_lock' # pinecone_lock =>
          \/ pinecone_lock = 0 /\ task_pc[pinecone_lock'] = "lock"
          \/ pinecone_lock # 0 /\ pinecone_lock' = 0 /\ frees_lock_at_end_of_upserts]_vars
  /\ \A d \in 1..MaxRunDocs :
       (d \in Docs /\ task_pc[d] = "lock") ~> (pinecone_lock = d)

\* a task holds the lock after the first upsert call of another task raised:
\* the lock came back from the task that raised
C37_Witness ==
  \E d \in Docs : \E e \in Docs \ {d} :
    /\ task_pc[d] = "raised" /\ raw_texts[d] # None
    /\ task_pc[e] = "upsert" /\ pinecone_lock = e
    /\ store = <<>>

MaxSpans == 2          \* most entries in the "interviews" list of a response

\* The offsets a response may name for a text of n characters: its start, an
\* offset inside it and one past its end.
SpanOffsets(n) == {0, 125, n + 10}

\* An entry of "interviews": an object with integer "start_char" and
\* "end_char" ("span"), an object without one of the keys ("missing_key"),
\* an object in which one is no number ("not_a_number").
bad_entry(form) == [form |-> form, start_char |-> 0, end_char |-> 0]
InterviewEntries(n) ==
  {[form |-> "span", start_char |-> a, end_char |-> b] :
     a \in SpanOffsets(n), b \in SpanOffsets(n)}
  \cup {bad_entry("missing_key"), bad_entry("not_a_number")}

InterviewLists(n) == UNION {[1..k -> InterviewEntries(n)] : k \in 0..MaxSpans}

\* What the boundary-detection call can do: "raised", "not_json" and
\* "not_object" as for the field extraction, or "object": a JSON object whose
\* "has_multiple_interviews" is missing, null, false, true or a non-empty
\* string, and whose "interviews" is missing, null or a list of entries.
detection_failure(kind) ==
  [kind |-> kind, has_multiple_interviews |-> "missing", interviews_is |-> "missing",
   interviews |-> <<>>]

DetectionResponses(n) ==
  {detection_failure(kind) : kind \in {"raised", "not_json", "not_object"}}
  \cup {[kind |-> "object", has_multiple_interviews |-> h, interviews_is |-> "missing",
         interviews |-> <<>>] : h \in {"missing", "null", "false"}}
  \cup {[kind |-> "object", has_multiple_interviews |-> h, interviews_is |-> f,
         interviews |-> <<>>] : h \in {"true", "string"}, f \in {"missing", "null"}}
  \cup {[kind |-> "object", has_multiple_interviews |-> h, interviews_is |-> "list",
         interviews |-> l] : h \in {"true", "string"}, l \in InterviewLists(n)}

\* the truth value Python gives result.get("has_multiple_interviews", False)
truthy(has_multiple_interviews) == has_multiple_interviews \in {"true", "string"}

\* return [(0, len(raw_text))]
whole_text(raw_text) == <<<<0, Len(raw_text)>>>>

\* detect_interview_boundaries: the spans returned. Every exception of the
\* try block (the call, json.loads, result.get on a non-object, iterating
\* null, a missing key, int() of a non-number) ends in the except branch.
detect_interview_boundaries(raw_text, response) ==
  IF response.kind # "object" THEN whole_text(raw_text)
  ELSE IF ~truthy(response.has_multiple_interviews) THEN whole_text(raw_text)
  ELSE IF response.interviews_is = "missing" THEN <<>>
  ELSE IF response.interviews_is = "null" THEN whole_text(raw_text)
  ELSE IF \E k \in 1..Len(response.interviews) : response.interviews[k].form # "span"
       THEN whole_text(raw_text)
       ELSE [k \in 1..Len(response.interviews) |->
               <<response.interviews[k].start_char, response.interviews[k].end_char>>]

(***************************************************************************)
(* SpecDocument: one call of process_pdf on a short text                   *)
(***************************************************************************)
\* The texts extract_text_from_pdf may return: empty, whitespace only, 99
\* characters with and without whitespace around them, exactly 100, 150, and
\* two blocks of 120 characters that a span may separate.
DocTexts ==
  { <<>>,
    Rep(" ", 120),
    Rep("a", 99),
    Rep(" ", 5) \o Rep("a", 99) \o Rep(" ", 5),
    Rep("a", 100),
    Rep("a", 150),
    Rep("a", 120) \o Rep(" ", 10) \o Rep("b", 120) }

\* process_single_interview on an interview of one cleaning chunk, when the
\* cleaning call returns the chunk's text and the embedding calls succeed
process_single_interview(interview_txt, interview_num, response) ==
  LET fields == extract_company_and_interviewee_with_openai(response)
      cleaning_chunks == chunk_text_for_processing(interview_txt, CLEAN_CHUNK_SIZE)
      cleaned == join_results([k \in 1..Len(cleaning_chunks) |->
                   clean_text_chunk_with_openai(cleaning_chunks[k],
                     IF "echo" \in CleaningResponses(cleaning_chunks[k])
                     THEN "echo" ELSE "skipped")])
      embedding_chunks == chunk_for_embedding(cleaned, EMBED_MAX_CHARS)
  IN  [i \in 1..Len(embedding_chunks) |->
         transcript_record(fields[1], fields[2], embedding_chunks[i], i - 1,
                           Len(embedding_chunks), <<interview_num, i - 1>>,
                           "transcript.pdf")]

InitDocument ==
  /\ pdf_raw_text \in DocTexts
  /\ detection = None
  /\ pdf_boundaries = <<>>
  /\ interview_texts = <<>>
  /\ handed = <<>>
  /\ extractions = <<>>
  /\ doc_records = <<>>
  /\ upserted = <<>>
  /\ doc_result = 0
  /\ doc_pc = "check"
  /\ ChunkIdle
  /\ InterviewIdle
  /\ MainIdle
  /\ AuxIdle

\* if not raw_text or len(raw_text.strip()) < 100: return 0
check_text ==
  /\ doc_pc = "check"
  /\ IF text_too_short(pdf_raw_text)
     THEN doc_pc' = "returned" /\ doc_result' = 0
     ELSE doc_pc' = "detect" /\ doc_result' = doc_result
  /\ UNCHANGED <<pdf_raw_text, detection, pdf_boundaries, interview_texts, handed,
                 extractions, doc_records, upserted, chunk_vars, interview_vars, main_vars, aux_vars>>

\* boundaries = detect_interview_boundaries(raw_text), the first statement of
\* split_interviews_from_text
detect_boundaries_from(responses) ==
  /\ doc_pc = "detect"
  /\ \E response \in responses :
       /\ detection' = response
       /\ pdf_boundaries' = detect_interview_boundaries(pdf_raw_text, response)
  /\ doc_pc' = "split"
  /\ UNCHANGED <<pdf_raw_text, interview_texts, handed, extractions, doc_records, upserted,
                 doc_result, chunk_vars, interview_vars, main_vars, aux_vars>>

detect_boundaries == detect_boundaries_from(DetectionResponses(Len(pdf_raw_text)))

\* the rest of split_interviews_from_text, and `if not interview_texts:
\* return 0`
split_interviews_of_pdf ==
  /\ doc_pc = "split"
  /\ interview_texts' = split_interviews_from_text(pdf_raw_text, pdf_boundaries)
  /\ IF interview_texts' = <<>>
     THEN doc_pc' = "returned" /\ doc_result' = 0
     ELSE doc_pc' = "interviews" /\ doc_result' = doc_result
  /\ doc_records' = <<>>
  /\ UNCHANGED <<pdf_raw_text, detection, pdf_boundaries, handed, extractions, upserted,
                 chunk_vars, interview_vars, main_vars, aux_vars>>

\* one pass of the interview loop: process_single_interview is called with
\* the next interview text and its records extend all_records
hand_interview ==
  /\ doc_pc = "interviews"
  /\ Len(handed) < Len(interview_texts)
  /\ \E response \in AllExtractionResponses :
       LET interview_num == Len(handed) + 1
       IN  /\ handed' = Append(handed, interview_texts[interview_num])
           /\ extractions' = Append(extractions,
                [response |-> response,
                 fields |-> extract_company_and_interviewee_with_openai(response)])
           /\ doc_records' = doc_records
                \o process_single_interview(interview_texts[interview_num],
                                            interview_num, response)
  /\ UNCHANGED <<pdf_raw_text, detection, pdf_boundaries, interview_texts, upserted,
                 doc_result, doc_pc, chunk_vars, interview_vars, main_vars, aux_vars>>

\* mutant: the loop over the interviews is left after the first interview
interview_loop_over_after_first == handed # <<>>

\* `for i, interview_text in enumerate(interview_texts, 1)` is exhausted
interview_loop_over == Len(handed) = Len(interview_texts)

\* the loop is over: `if not all_records: return 0`, else the upsert loop
\* writes all_records (one batch) and process_pdf returns len(all_records),
\* or the upsert call raises, which leaves process_pdf
upsert_and_return ==
  /\ doc_pc = "interviews"
  /\ interview_loop_over
  /\ \/ /\ upserted' = doc_records
        /\ doc_result' = Len(doc_records)
        /\ doc_pc' = "returned"
     \/ /\ doc_records # <<>>
        /\ upserted' = upserted
        /\ doc_result' = doc_result
        /\ doc_pc' = "raised"
  /\ UNCHANGED <<pdf_raw_text, detection, pdf_boundaries, interview_texts, handed,
                 extractions, doc_records, chunk_vars, interview_vars, main_vars, aux_vars>>

NextDocument ==
  \/ check_text
  \/ detect_boundaries
  \/ split_interviews_of_pdf
  \/ hand_interview
  \/ upsert_and_return

SpecDocument == InitDocument /\ [][NextDocument]_vars

(***************************************************************************)
(* Claims about one document (SpecDocument)                                *)
(***************************************************************************)
\* detect_interview_boundaries has returned
detected == doc_pc \in {"split", "interviews"} \/ (doc_pc = "returned" /\ handed # <<>>)

\* the response is an object with a missing or wrongly typed key
malformed(response) ==
  /\ response.kind = "object"
  /\ \/ response.has_multiple_interviews \notin {"true", "false"}
     \/ /\ truthy(response.has_multiple_interviews)
        /\ \/ response.interviews_is # "list"
           \/ \E k \in 1..Len(response.interviews) : response.interviews[k].form # "span"

\* C13 as stated: when the call raises, answers with text that is no JSON,
\* with malformed data (no object, a missing or wrongly typed key) or reports
\* a single interview, detect_interview_boundaries returns exactly the one
\* span (0, len(raw_text)).
C13_DetectorDegradesToWholeText ==
  (/\ detected
   /\ \/ detection.kind # "object"
      \/ malformed(detection)
      \/ detection.has_multiple_interviews = "false")
    => pdf_boundaries = whole_text(pdf_raw_text)

\* C14 as stated: for every response, the spans returned are ordered by
\* start, pairwise non-overlapping (each starts at or after the end of the
\* previous one) and satisfy 0 <= start <= end <= len(raw_text).
C14_SpansOrderedDisjointInRange ==
  detected =>
    /\ \A k \in 1..Len(pdf_boundaries) :
         /\ 0 <= pdf_boundaries[k][1]
         /\ pdf_boundaries[k][1] <= pdf_boundaries[k][2]
         /\ pdf_boundaries[k][2] <= Len(pdf_raw_text)
    /\ \A k \in 2..Len(pdf_boundaries) :
         pdf_boundaries[k][1] >= pdf_boundaries[k - 1][2]

\* C15 as stated: every interview text handed to process_single_interview
\* has a trimmed length above 100.
C15_HandedInterviewsAreLongEnough ==
  \A k \in 1..Len(handed) : Len(strip(handed[k])) > MIN_INTERVIEW_LEN

\* C16 as stated: when no detected span is valid, nothing is handed to
\* process_single_interview, nothing is upserted and process_pdf returns 0.
C16_NoValidSpanGivesNoRecords ==
  (/\ doc_pc \in {"interviews", "returned"}
   /\ ~text_too_short(pdf_raw_text)
   /\ valid_interviews(pdf_raw_text, pdf_boundaries) = <<>>)
    => /\ handed = <<>>
       /\ upserted = <<>>
       /\ doc_result = 0

\* C18: whenever the extraction call raises or answers with something that
\* is no JSON object, the pair returned is ("Unknown", "Unknown").
C18_ExtractionFailureGivesUnknownPair ==
  \A k \in 1..Len(extractions) :
    extractions[k].response.kind # "object" => extractions[k].fields = <<Unknown, Unknown>>

\* the three kinds of failure have each been met by an interview of a
\* document that went through to its return
C18_Witness ==
  /\ doc_pc = "returned"
  /\ Len(extractions) = 2
  /\ extractions[1].response.kind = "not_json"
  /\ extractions[2].response.kind \in {"raised", "not_object"}
  /\ extractions[1].fields = <<Unknown, Unknown>>
  /\ Len(doc_records) = 2

nothing == {Missing, None, <<>>}

\* C19: every record has a non-empty company and interviewee, and when the
\* extraction of its interview failed or gave nothing for a field (key
\* missing, null, empty string) that field of the record is "Unknown".
C19_RecordsCarryCompanyAndInterviewee ==
  \A r \in 1..Len(doc_records) :
    LET record == doc_records[r]
        response == extractions[record.id[1]].response
    IN  /\ record.company \notin {<<>>, None, Missing}
        /\ record.interviewee \notin {<<>>, None, Missing}
        /\ (response.kind # "object" \/ response.company \in nothing)
             => record.company = Unknown
        /\ (response.kind # "object" \/ response.interviewee \in nothing)
             => record.interviewee = Unknown

\* an upserted record whose interview's extraction answered with an empty
\* company and a null interviewee
C19_Witness ==
  /\ doc_pc = "returned"
  /\ \E r \in 1..Len(upserted) :
       LET response == extractions[upserted[r].id[1]].response
       IN  /\ response.kind = "object"
           /\ response.company = <<>>
           /\ response.interviewee = None
           /\ upserted[r].company = Unknown
           /\ upserted[r].interviewee = Unknown

\* split_interviews_from_text has returned
split_done == doc_pc \in {"interviews", "returned", "raised"} /\ ~text_too_short(pdf_raw_text)

\* C36: split_interviews_from_text returns at least one interview text, the
\* whole raw text when no detected span passes the length filter; process_pdf
\* never returns at `No interviews detected`; a document of at least 100
\* trimmed characters whose task has ended has had every interview text, at
\* least one, handed to process_single_interview.
C36_AtLeastOneInterviewIsProcessed ==
  /\ split_done =>
       /\ Len(interview_texts) >= 1
       /\ valid_interviews(pdf_raw_text, pdf_boundaries) = <<>> =>
            interview_texts = <<pdf_raw_text>>
  /\ ~(doc_pc = "returned" /\ ~text_too_short(pdf_raw_text) /\ handed = <<>>)
  /\ (doc_pc \in {"returned", "raised"} /\ ~text_too_short(pdf_raw_text)) =>
       /\ Len(handed) >= 1
       /\ handed = interview_texts

\* a text of 150 characters for which the detector returned spans none of
\* which passes the length filter: the whole text was processed and loaded
C36_Witness ==
  /\ doc_pc = "returned"
  /\ Len(pdf_raw_text) = 150
  /\ pdf_boundaries # <<>>
  /\ valid_interviews(pdf_raw_text, pdf_boundaries) = <<>>
  /\ handed = <<pdf_raw_text>>
  /\ upserted # <<>>

(***************************************************************************)
(* SpecTask: one call of process_pdf with its calls of                     *)
(* process_single_interview step by step                                   *)
(***************************************************************************)
\* The texts the reader may return: 99 characters, one interview of 150,
\* two blocks of 120 characters that a response may separate, and 6200
\* characters, which take two cleaning chunks and two embedding chunks.
TaskTexts ==
  { Rep("a", MIN_TEXT_LEN - 1),
    Rep("a", 150),
    Rep("a", 120) \o Rep(" ", 10) \o Rep("b", 120),
    Rep("a", EMBED_MAX_CHARS + 200) }

\* The boundary-detection call raises, reports a single interview, or
\* reports two spans cut at offset 125.
TaskDetections(n) ==
  { detection_failure("raised"),
    [kind |-> "object", has_multiple_interviews |-> "false", interviews_is |-> "missing",
     interviews |-> <<>>],
    [kind |-> "object", has_multiple_interviews |-> "true", interviews_is |-> "list",
     interviews |-> << [form |-> "span", start_char |-> 0, end_char |-> 125],
                       [form |-> "span", start_char |-> 125, end_char |-> n + 10] >>] }

InitTask ==
  /\ pdf_raw_text = <<>>
  /\ detection = None
  /\ pdf_boundaries = <<>>
  /\ interview_texts = <<>>
  /\ handed = <<>>
  /\ extractions = <<>>
  /\ doc_records = <<>>
  /\ upserted = <<>>
  /\ doc_result = 0
  /\ doc_pc = "read"
  /\ ChunkIdle
  /\ InterviewIdle
  /\ MainIdle
  /\ AuxIdle

\* raw_text = extract_text_from_pdf(pdf_path): the reader raises, which
\* leaves process_pdf, or returns a text
read_pdf ==
  /\ doc_pc = "read"
  /\ \/ doc_pc' = "raised" /\ pdf_raw_text' = pdf_raw_text
     \/ doc_pc' = "check" /\ pdf_raw_text' \in TaskTexts
  /\ UNCHANGED <<detection, pdf_boundaries, interview_texts, handed, extractions,
                 doc_records, upserted, doc_result, chunk_vars, interview_vars, main_vars,
                 aux_vars>>

\* a pass of the interview loop begins: process_single_interview is called
\* with the next interview text
call_interview ==
  /\ doc_pc = "interviews"
  /\ Len(handed) < Len(interview_texts)
  /\ handed' = Append(handed, interview_texts[Len(handed) + 1])
  /\ doc_pc' = "interview"
  /\ interview_text' = interview_texts[Len(handed) + 1]
  /\ interview_pc' = "extract"
  /\ UNCHANGED <<company, interviewee, text_chunks, future_to_chunk, yielded, results,
                 cleaned_transcript, transcript_chunks, embed_i, records, out_of_order,
                 embed_failed, embedding_calls>>
  /\ UNCHANGED <<pdf_raw_text, detection, pdf_boundaries, interview_texts, extractions,
                 doc_records, upserted, doc_result, chunk_vars, main_vars, aux_vars>>

\* process_single_interview has returned: all_records.extend(records); its
\* locals are gone
extend_all_records ==
  /\ doc_pc = "interview"
  /\ interview_pc = "returned"
  /\ doc_records' = doc_records \o records
  /\ doc_pc' = "interviews"
  /\ interview_text' = <<>> /\ company' = None /\ interviewee' = None
  /\ text_chunks' = <<>> /\ future_to_chunk' = <<>> /\ yielded' = {}
  /\ results' = <<>> /\ cleaned_transcript' = <<>> /\ transcript_chunks' = <<>>
  /\ embed_i' = 0 /\ records' = <<>> /\ interview_pc' = "idle"
  /\ out_of_order' = FALSE /\ embed_failed' = {} /\ embedding_calls' = 0
  /\ UNCHANGED <<pdf_raw_text, detection, pdf_boundaries, interview_texts, handed,
                 extractions, upserted, doc_result, chunk_vars, main_vars, aux_vars>>

NextTask ==
  \/ read_pdf
  \/ check_text
  \/ detect_boundaries_from(TaskDetections(Len(pdf_raw_text)))
  \/ split_interviews_of_pdf
  \/ call_interview
  \/ NextInterview
  \/ extend_all_records
  \/ upsert_and_return

SpecTask == InitTask /\ [][NextTask]_vars

(***************************************************************************)
(* Claims about one document task step by step (SpecTask)                  *)
(***************************************************************************)
\* C24: within one document task the interviews are handed over one after
\* another in span order, one being in progress at a time, and the embedding
\* calls are issued one after another: at most one is in flight, it is the
\* call of chunk embed_i of the interview in progress, and every chunk before
\* it has its record or has failed.
C24_EmbeddingCallsAreSequential ==
  /\ handed = SubSeq(interview_texts, 1, Len(handed))
  /\ interview_pc # "idle" <=> doc_pc = "interview"
  /\ doc_pc = "interview" => interview_text = handed[Len(handed)]
  /\ embedding_calls <= 1
  /\ embedding_calls = 1 =>
       /\ interview_pc = "embed"
       /\ embed_i < Len(transcript_chunks)
       /\ Len(records) + Cardinality(embed_failed) = embed_i
       /\ \A r \in 1..Len(records) : records[r].chunk_index < embed_i

\* the second interview of a document is in progress, the first having given
\* records; the embedding call of its second chunk is in flight after that of
\* its first chunk has failed
C24_Witness ==
  /\ doc_pc = "interview"
  /\ Len(handed) = 2
  /\ doc_records # <<>>
  /\ Len(transcript_chunks) = 2
  /\ embedding_calls = 1
  /\ embed_i = 1
  /\ embed_failed = {0}

\* The stage a document task is in: the milestone it has passed or, inside
\* process_single_interview, what the interview is undergoing. A task that
\* ends without loading is in "NoText", "NoRecords" or "Raised".
stage ==
  CASE doc_pc = "read" -> "Discovered"
    [] doc_pc \in {"check", "detect"} -> "TextExtracted"
    [] doc_pc = "split" -> "BoundariesDetected"
    [] doc_pc = "interviews" -> (IF handed = <<>> THEN "BoundariesDetected" ELSE "Built")
    [] doc_pc = "interview" ->
         (CASE interview_pc = "extract" -> "Extracting"
            [] interview_pc \in {"chunk", "submit", "collect"} -> "Cleaning"
            [] interview_pc \in {"records", "embed"} -> "Embedding"
            [] interview_pc = "returned" -> "Built")
    [] doc_pc = "returned" ->
         (IF upserted # <<>> THEN "Loaded"
          ELSE IF handed = <<>> THEN "NoText" ELSE "NoRecords")
    [] doc_pc = "raised" -> "Raised"

\* the ways a task ends without loading
leaving ==
  { <<"Discovered", "Raised">>, <<"TextExtracted", "NoText">>,
    <<"Built", "NoRecords">>, <<"Built", "Raised">> }

\* the order C27 states: Cleaning, then Extracting, then Embedding
stated_order ==
  { <<"Discovered", "TextExtracted">>, <<"TextExtracted", "BoundariesDetected">>,
    <<"BoundariesDetected", "Cleaning">>, <<"Cleaning", "Extracting">>,
    <<"Extracting", "Embedding">>, <<"Embedding", "Built">>,
    <<"Built", "Cleaning">>, <<"Built", "Loaded">> }

\* the order of the code: Extracting, then Cleaning, then Embedding
code_order ==
  { <<"Discovered", "TextExtracted">>, <<"TextExtracted", "BoundariesDetected">>,
    <<"BoundariesDetected", "Extracting">>, <<"Extracting", "Cleaning">>,
    <<"Cleaning", "Embedding">>, <<"Embedding", "Built">>,
    <<"Built", "Extracting">>, <<"Built", "Loaded">> }

\* C27 as stated: a task changes stage only along Discovered, TextExtracted,
\* BoundariesDetected, then per interview Cleaning, Extracting, Embedding,
\* Built, then Loaded (or by ending without loading).
C27_StagesInStatedOrder ==
  [][stage' # stage => <<stage, stage'>> \in stated_order \cup leaving]_vars

\* no stage is entered before the previous one has finished: what each
\* stage finds done and not yet begun
stage_is_entered_when_previous_is_over ==
  /\ stage \in {"Discovered", "TextExtracted"} => detection = None /\ interview_texts = <<>>
  /\ stage \in {"Discovered", "TextExtracted", "BoundariesDetected"} =>
       handed = <<>> /\ doc_records = <<>>
  /\ stage = "Extracting" => text_chunks = <<>> /\ future_to_chunk = <<>>
  /\ stage \in {"Extracting", "Cleaning"} =>
       /\ cleaned_transcript = <<>> /\ transcript_chunks = <<>>
       /\ embed_i = 0 /\ embedding_calls = 0 /\ records = <<>>
  /\ stage = "Embedding" =>
       /\ yielded = 1..Len(text_chunks)
       /\ \A k \in 1..Len(future_to_chunk) : future_to_chunk[k].state = "done"
       /\ \A k \in 1..Len(results) : results[k] # None
  /\ stage \in {"Built", "Loaded", "NoRecords"} => embedding_calls = 0
  /\ stage # "Loaded" => upserted = <<>>
  /\ stage = "Loaded" =>
       /\ Len(handed) = Len(interview_texts)
       /\ interview_pc = "idle"
       /\ upserted = doc_records

\* C27 amended: the stages of an interview are Extracting, Cleaning,
\* Embedding, Built: a task changes stage only along Discovered,
\* TextExtracted, BoundariesDetected, then per interview Extracting, Cleaning,
\* Embedding, Built, then Loaded (or by ending without loading), and no stage
\* is entered before the previous one has finished.
C27_StagesInCodeOrder ==
  /\ [][stage' # stage => <<stage, stage'>> \in code_order \cup leaving]_vars
  /\ []stage_is_entered_when_previous_is_over

\* a document of two interviews is loaded, the second of which went through
\* two cleaning chunks and two embedding chunks
C27_Witness ==
  /\ stage = "Loaded"
  /\ Len(handed) = 2
  /\ Len(upserted) = 3

\* process_pdf has ended, by returning or by raising
task_ended == doc_pc \in {"returned", "raised"}

\* the two endings C28 names: `No text extracted` (line 408) and
\* `No interviews detected` (line 419)
no_text_extracted == doc_pc = "returned" /\ text_too_short(pdf_raw_text)
no_interviews_detected ==
  doc_pc = "returned" /\ ~text_too_short(pdf_raw_text) /\ interview_texts = <<>>

\* C28: a task that has ended without loading has ended with no text
\* extracted or with no interviews detected, and has returned zero records
\* without raising.
C28_OnlyNoTextOrNoInterviews ==
  task_ended /\ stage # "Loaded" =>
    /\ no_text_extracted \/ no_interviews_detected
    /\ doc_pc = "returned"
    /\ doc_result = 0

\* the endings without loading that the code has besides `No text extracted`:
\* the reader raises (line 407), no interview gives a record (line 441), the
\* upsert raises (line 450)
reader_raised == doc_pc = "raised" /\ handed = <<>>
no_records_created == stage = "NoRecords" /\ doc_result = 0
upsert_raised == doc_pc = "raised" /\ doc_records # <<>>

\* every cleaning call of the interview in progress has completed and has
\* been collected
cleaning_over ==
  /\ Len(future_to_chunk) = Len(text_chunks)
  /\ \A k \in 1..Len(future_to_chunk) : future_to_chunk[k].state = "done"
  /\ yielded = 1..Len(text_chunks)

\* C39: the upsert of a document is issued only when every interview text has
\* been handed to process_single_interview and none is in progress, with the
\* records of all of them; an embedding call is issued only when every
\* cleaning call of the interview has completed; a task none of whose
\* interviews gave a record ends without an upsert call, returning 0.
C39_UpsertAfterAllInterviewsAreBuilt ==
  /\ [][upserted' # upserted =>
          /\ doc_pc = "interviews"
          /\ Len(handed) = Len(interview_texts)
          /\ interview_pc = "idle" /\ embedding_calls = 0
          /\ upserted' = doc_records]_vars
  /\ [][embedding_calls' > embedding_calls => cleaning_over]_vars
  /\ []((task_ended /\ handed # <<>> /\ doc_records = <<>>) =>
         doc_pc = "returned" /\ upserted = <<>> /\ doc_result = 0)

\* a task of two interviews has returned 0 without an upsert: neither
\* interview gave a record
C39_Witness ==
  /\ doc_pc = "returned"
  /\ Len(handed) = 2
  /\ doc_records = <<>>
  /\ upserted = <<>>
  /\ doc_result = 0

(***************************************************************************)
(* SpecRuns: the script run twice over the same documents                  *)
(***************************************************************************)
MaxRunRecords == 3     \* most records one run builds

\* uuid.uuid4() draws 122 random bits. That it returns a value it has
\* returned before has a negligible probability and is not modelled: the
\* call returns any value not yet issued.
Uuids == 1..(2 * MaxRunRecords)
uuid4(issued_values) == Uuids \ issued_values

\* mutant: the id is made from the position of the chunk
record_ids_from_chunk_index(issued_values, i) == {<<"transcript", i>>}

\* "id": f"transcript-{uuid.uuid4().hex}"
record_ids(issued_values, i) == {<<"transcript", u>> : u \in uuid4(issued_values)}

\* index.upsert: every vector is stored under its id, replacing what the id
\* held
upsert(contents, vectors) ==
  LET ids == {vectors[k].id : k \in 1..Len(vectors)}
  IN  [id \in DOMAIN contents \cup ids |->
         IF id \in ids
         THEN CHOOSE v \in {vectors[k] : k \in 1..Len(vectors)} : v.id = id
         ELSE contents[id]]

InitRuns ==
  /\ run = 1
  /\ run_chunks \in 1..MaxRunRecords
  /\ built = <<>>
  /\ issued = {}
  /\ index = <<>>
  /\ run_ids = <<{}, {}>>
  /\ run_pc = "build"
  /\ ChunkIdle
  /\ InterviewIdle
  /\ MainIdle
  /\ DocumentIdle
  /\ CleanIdle

\* records.append({"id": ..., "metadata": {..., "chunk_index": i, ...}}) for
\* the next chunk
build_record ==
  /\ run_pc = "build"
  /\ Len(built) < run_chunks
  /\ \E id \in record_ids(issued, Len(built)) :
       /\ built' = Append(built, [id |-> id, chunk_index |-> Len(built), run |-> run])
       /\ issued' = issued \cup {id[2]}
       /\ run_ids' = [run_ids EXCEPT ![run] = @ \cup {id}]
  /\ UNCHANGED <<run, run_chunks, index, run_pc, chunk_vars, interview_vars, main_vars,
                 doc_vars, clean_vars>>

\* every record is built: the upsert loop
records_built ==
  /\ run_pc = "build"
  /\ Len(built) = run_chunks
  /\ run_pc' = "upsert"
  /\ UNCHANGED <<run, run_chunks, built, issued, index, run_ids, chunk_vars,
                 interview_vars, main_vars, doc_vars, clean_vars>>

\* index.upsert(vectors=batch, namespace=PINECONE_NAMESPACE) with the records
\* of the run (one batch)
upsert_run ==
  /\ run_pc = "upsert"
  /\ index' = upsert(index, built)
  /\ run_pc' = "done"
  /\ UNCHANGED <<run, run_chunks, built, issued, run_ids, chunk_vars, interview_vars,
                 main_vars, doc_vars, clean_vars>>

\* the script is run again on the same documents
run_again ==
  /\ run_pc = "done"
  /\ run = 1
  /\ run' = 2
  /\ built' = <<>>
  /\ run_pc' = "build"
  /\ UNCHANGED <<run_chunks, issued, index, run_ids, chunk_vars, interview_vars,
                 main_vars, doc_vars, clean_vars>>

NextRuns == build_record \/ records_built \/ upsert_run \/ run_again

SpecRuns == InitRuns /\ [][NextRuns]_vars

\* C26: no two records built in one run share an identifier; the
\* identifiers of the two runs are disjoint; after the second run the store
\* holds the records of both runs, those of the first as the first run wrote
\* them.
C26_IdentifiersAreFresh ==
  /\ \A i \in 1..Len(built) : \A j \in 1..(i - 1) : built[i].id # built[j].id
  /\ Cardinality(run_ids[run]) = Len(built)
  /\ run_ids[1] \cap run_ids[2] = {}
  /\ run_pc = "done" =>
       /\ DOMAIN index = (IF run = 1 THEN run_ids[1] ELSE run_ids[1] \cup run_ids[2])
       /\ Cardinality(DOMAIN index) = run * run_chunks
       /\ \A id \in run_ids[1] : index[id].run = 1
       /\ \A id \in DOMAIN index : index[id].id = id

\* the second run is over: the store holds twice three records
C26_Witness ==
  /\ run = 2
  /\ run_pc = "done"
  /\ run_chunks = 3
  /\ Cardinality(DOMAIN index) = 6
  /\ \E id \in DOMAIN index : index[id].run = 1 /\ index[id].chunk_index = 2
  /\ \E id \in DOMAIN index : index[id].run = 2 /\ index[id].chunk_index = 2

=============================================================================
